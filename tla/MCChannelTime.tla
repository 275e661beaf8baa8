---------------------------- MODULE MCChannelTime ----------------------------
(* Model-checking instance of ChannelTime: milliseconds stand for about a  *)
(* second of the ETSI timers.                                              *)
EXTENDS ChannelTime
=============================================================================
