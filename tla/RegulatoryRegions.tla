---------------------------- MODULE RegulatoryRegions ----------------------------
(***************************************************************************)
(* The regulatory regions (ex10_regulatory_<region>.c), the layer that     *)
(* picks one by its identifier (ex10_regulatory.c) and the names under     *)
(* which a command line gives it (ex10_default_region_names.c).  A region  *)
(* without a list of usable channels (NULL) has the empty one here.        *)
(***************************************************************************)
EXTENDS Integers, Sequences

Ex10RegionId ==
    [FCC |-> 0, HK |-> 3, TAIWAN |-> 4, ETSI_LOWER |-> 7, KOREA |-> 8, MALAYSIA |-> 9,
     CHINA |-> 10, SOUTH_AFRICA |-> 12, BRAZIL |-> 13, THAILAND |-> 14, SINGAPORE |-> 15,
     AUSTRALIA |-> 16, INDIA |-> 17, URUGUAY |-> 18, VIETNAM |-> 19, ISRAEL |-> 20,
     PHILIPPINES |-> 21, INDONESIA |-> 23, NEW_ZEALAND |-> 24, JAPAN_916_921_MHZ |-> 25,
     PERU |-> 27, ETSI_UPPER |-> 29, RUSSIA |-> 100, CUSTOM |-> 254, NOT_DEFINED |-> 255]

Timers(nominal, extended, regulatory, off) ==
    [nominal_ms |-> nominal, extended_ms |-> extended, regulatory_ms |-> regulatory,
     off_same_channel_ms |-> off]
Channels(start, spacing, count, usable, random) ==
    [start_freq_khz |-> start, spacing_khz |-> spacing, count |-> count,
     usable |-> usable, random_hop |-> random]
Region(id, timers, channels, divider, filter) ==
    [region_id |-> id, regulatory_timers |-> timers, regulatory_channels |-> channels,
     pll_divider |-> divider, rf_filter |-> filter]

\* What several regions have in common.
Hopping == Timers(200, 380, 400, 0)
Untimed == Timers(0, 0, 0, 0)
FourSeconds(off) == Timers(3800, 3980, 4000, off)
Run(first, last) == [i \in 1 .. (last - first + 1) |-> first + i - 1]

fcc_region ==
    Region(Ex10RegionId.FCC, Hopping,
           Channels(902750, 500, 50, <<>>, TRUE), 24, "UPPER_BAND")
hk_region ==
    Region(Ex10RegionId.HK, Hopping,
           Channels(902750, 500, 10, Run(36, 45), TRUE), 24, "UPPER_BAND")
taiwan_region ==
    Region(Ex10RegionId.TAIWAN, Hopping,
           Channels(902750, 500, 14, Run(37, 50), TRUE), 24, "UPPER_BAND")
etsi_lower_region ==
    Region(Ex10RegionId.ETSI_LOWER, FourSeconds(100),
           Channels(865100, 200, 4, <<4, 7, 10, 13>>, FALSE), 120, "LOWER_BAND")
korea_region ==
    Region(Ex10RegionId.KOREA, Hopping,
           Channels(917300, 600, 6, <<>>, TRUE), 60, "UPPER_BAND")
malaysia_region ==
    Region(Ex10RegionId.MALAYSIA, Hopping,
           Channels(902750, 500, 8, Run(34, 41), TRUE), 24, "UPPER_BAND")
china_region ==
    Region(Ex10RegionId.CHINA, Timers(1800, 1980, 2000, 0),
           Channels(920125, 250, 4, <<3, 7, 11, 15>>, FALSE), 48, "UPPER_BAND")
south_africa_region ==
    Region(Ex10RegionId.SOUTH_AFRICA, Hopping,
           Channels(915600, 200, 17, <<>>, TRUE), 60, "UPPER_BAND")
brazil_region ==
    Region(Ex10RegionId.BRAZIL, Hopping,
           Channels(902750, 500, 35, Run(1, 10) \o Run(26, 50), TRUE), 24, "UPPER_BAND")
thailand_region ==
    Region(Ex10RegionId.THAILAND, Hopping,
           Channels(902750, 500, 10, Run(36, 45), TRUE), 24, "UPPER_BAND")
singapore_region ==
    Region(Ex10RegionId.SINGAPORE, Hopping,
           Channels(902750, 500, 10, Run(36, 45), TRUE), 24, "UPPER_BAND")
australia_region ==
    Region(Ex10RegionId.AUSTRALIA, Hopping,
           Channels(902750, 500, 10, Run(36, 45), TRUE), 24, "UPPER_BAND")
india_region ==
    Region(Ex10RegionId.INDIA, FourSeconds(100),
           Channels(865100, 200, 4, <<1, 4, 7, 10>>, FALSE), 60, "LOWER_BAND")
uruguay_region ==
    Region(Ex10RegionId.URUGUAY, Hopping,
           Channels(902750, 500, 23, Run(28, 50), TRUE), 24, "UPPER_BAND")
vietnam_region ==
    Region(Ex10RegionId.VIETNAM, Hopping,
           Channels(902750, 500, 8, Run(33, 40), TRUE), 24, "UPPER_BAND")
israel_region ==
    Region(Ex10RegionId.ISRAEL, Untimed,
           Channels(902750, 500, 1, <<28>>, FALSE), 24, "UPPER_BAND")
philippines_region ==
    Region(Ex10RegionId.PHILIPPINES, FourSeconds(0),
           Channels(918250, 500, 4, <<>>, FALSE), 24, "UPPER_BAND")
indonesia_region ==
    Region(Ex10RegionId.INDONESIA, Hopping,
           Channels(902750, 500, 4, Run(37, 40), TRUE), 24, "UPPER_BAND")
new_zealand_region ==
    Region(Ex10RegionId.NEW_ZEALAND, Hopping,
           Channels(902750, 500, 10, Run(40, 49), TRUE), 24, "UPPER_BAND")
japan_916_921_mhz_region ==
    Region(Ex10RegionId.JAPAN_916_921_MHZ, FourSeconds(50),
           Channels(916000, 200, 4, <<5, 11, 17, 23>>, FALSE), 60, "UPPER_BAND")
peru_region ==
    Region(Ex10RegionId.PERU, Hopping,
           Channels(902750, 500, 23, Run(28, 50), TRUE), 24, "UPPER_BAND")
etsi_upper_region ==
    Region(Ex10RegionId.ETSI_UPPER, FourSeconds(0),
           Channels(915500, 400, 3, <<3, 6, 9>>, FALSE), 60, "UPPER_BAND")
russia_region ==
    Region(Ex10RegionId.RUSSIA, FourSeconds(100),
           Channels(916200, 1200, 4, Run(1, 4), FALSE), 60, "UPPER_BAND")
error_region ==
    Region(Ex10RegionId.NOT_DEFINED, Untimed, Channels(0, 0, 0, <<>>, TRUE), 0, "UNDEFINED_BAND")

\* The layers; every other identifier has that of the error region.
Layers == {Ex10RegionId[name] : name \in DOMAIN Ex10RegionId \ {"CUSTOM"}}
get_region_layer(id) == IF id \in Layers THEN id ELSE Ex10RegionId.NOT_DEFINED

\* What the layer of an identifier keeps by default.
DefaultRegion(id) ==
    CASE id = Ex10RegionId.FCC -> fcc_region
      [] id = Ex10RegionId.HK -> hk_region
      [] id = Ex10RegionId.TAIWAN -> taiwan_region
      [] id = Ex10RegionId.ETSI_LOWER -> etsi_lower_region
      [] id = Ex10RegionId.KOREA -> korea_region
      [] id = Ex10RegionId.MALAYSIA -> malaysia_region
      [] id = Ex10RegionId.CHINA -> china_region
      [] id = Ex10RegionId.SOUTH_AFRICA -> south_africa_region
      [] id = Ex10RegionId.BRAZIL -> brazil_region
      [] id = Ex10RegionId.THAILAND -> thailand_region
      [] id = Ex10RegionId.SINGAPORE -> singapore_region
      [] id = Ex10RegionId.AUSTRALIA -> australia_region
      [] id = Ex10RegionId.INDIA -> india_region
      [] id = Ex10RegionId.URUGUAY -> uruguay_region
      [] id = Ex10RegionId.VIETNAM -> vietnam_region
      [] id = Ex10RegionId.ISRAEL -> israel_region
      [] id = Ex10RegionId.PHILIPPINES -> philippines_region
      [] id = Ex10RegionId.INDONESIA -> indonesia_region
      [] id = Ex10RegionId.NEW_ZEALAND -> new_zealand_region
      [] id = Ex10RegionId.JAPAN_916_921_MHZ -> japan_916_921_mhz_region
      [] id = Ex10RegionId.PERU -> peru_region
      [] id = Ex10RegionId.ETSI_UPPER -> etsi_upper_region
      [] id = Ex10RegionId.RUSSIA -> russia_region
      [] OTHER -> error_region

\* region_names lists every identifier but that of no region.
region_names == DOMAIN Ex10RegionId \ {"NOT_DEFINED"}
get_region_id_of(name) ==
    IF name \in region_names THEN Ex10RegionId[name] ELSE Ex10RegionId.NOT_DEFINED
=============================================================================
