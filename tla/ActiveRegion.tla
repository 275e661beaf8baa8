------------------------------- MODULE ActiveRegion -------------------------------
(***************************************************************************)
(* The region the reader transmits in (ex10_active_region.c): its hop      *)
(* table, the synthesizer settings of a channel, and the two changes that  *)
(* a test mode makes to a region, one frequency and no timers.  Both go    *)
(* through one record, custom_active_region, which then replaces the       *)
(* layer's own region.  Times that a channel has used up are modelled in   *)
(* ChannelTime; here every channel is fresh.                               *)
(***************************************************************************)
EXTENDS RegulatoryRegions, FiniteSetsExt, SequencesExt

CONSTANTS
    RegionNames,    \* names an application asks a region by
    Frequencies,    \* kHz it asks for as the single frequency
    Randoms,        \* generators: what get_random() gives card by card
    TcxoKhz,        \* TCXO_FREQ_KHZ
    MaxRequests,    \* bound on the requests of the application
    MaxRamps        \* bound on the ramps up after a request

None == -1          \* region = NULL
Custom == -2        \* region = &custom_active_region

VARIABLES
    region,                 \* a layer's own region, Custom or None
    overridden,             \* the layers whose region_ptr is &custom_active_region
    custom_active_region,
    channel_hop_table,      \* with len_channel_hop_table entries
    channel_table_khz,
    active_channel_index,
    cw_timers,              \* the timers written at the last ramp up
    radiated,               \* the frequencies since the last request, oldest first
    asked,                  \* the identifier the application set last
    single, timed,          \* what it asked for in a region it changed
    customised,             \* the identifiers of the regions it changed
    requests

tables == <<channel_hop_table, channel_table_khz>>
ghosts == <<asked, single, timed, customised>>
vars == <<region, overridden, custom_active_region, tables, active_channel_index, cw_timers,
          radiated, ghosts, requests>>

Init ==
    /\ region = None
    /\ overridden = {}
    /\ custom_active_region = error_region
    /\ channel_hop_table = <<>> /\ channel_table_khz = <<>>
    /\ active_channel_index = 0
    /\ cw_timers = Untimed
    /\ radiated = <<>>
    /\ asked = Ex10RegionId.NOT_DEFINED
    /\ single = 0 /\ timed = TRUE
    /\ customised = {}
    /\ requests = 0

(***************************************************************************)
(* The layer, given what custom_active_region holds and which layers have  *)
(* it in place of their own.                                               *)
(***************************************************************************)
get_region(id, custom, over) ==
    IF get_region_layer(id) \in over THEN custom ELSE DefaultRegion(id)

\* *region, after the lazy initialization that every getter starts with.
TheRegion ==
    CASE region = Custom -> custom_active_region
      [] region = None -> get_region(Ex10RegionId.NOT_DEFINED, custom_active_region, overridden)
      [] OTHER -> DefaultRegion(region)
get_region_id == TheRegion.region_id

calculate_channel_khz(r, channel) ==
    r.regulatory_channels.start_freq_khz + (channel - 1) * r.regulatory_channels.spacing_khz
calculate_channel_index(r, frequency_khz) ==
    ((frequency_khz - r.regulatory_channels.start_freq_khz)
        \div r.regulatory_channels.spacing_khz) + 1

(***************************************************************************)
(* The hop table.                                                          *)
(***************************************************************************)
Swap(deck, i, j) == [deck EXCEPT ![i] = deck[j], ![j] = deck[i]]
shuffle_u16(deck, random) ==
    LET after[n \in 0 .. Len(deck)] ==
            IF n = 0 THEN deck
            ELSE Swap(after[n - 1], n, (random[n - 1] % (Len(deck) - n + 1)) + 1)
    IN  after[Len(deck)]

build_channel_table(channels, random) ==
    LET listed == IF channels.usable # <<>>
                  THEN channels.usable ELSE Run(1, channels.count)
    IN  IF channels.random_hop THEN shuffle_u16(listed, random) ELSE listed

\* set_region(id): without a region the tables stay those of the last one.
set_region(id, custom, over, random) ==
    LET r == get_region(id, custom, over)
        table == build_channel_table(r.regulatory_channels, random)
    IN  /\ custom_active_region' = custom
        /\ overridden' = over
        /\ region' = IF get_region_layer(id) \in over THEN Custom ELSE get_region_layer(id)
        /\ active_channel_index' = 0
        /\ radiated' = <<>>
        /\ requests' = requests + 1
        /\ UNCHANGED cw_timers
        /\ IF r.region_id = Ex10RegionId.NOT_DEFINED
           THEN UNCHANGED tables
           ELSE /\ channel_hop_table' = table
                /\ channel_table_khz' =
                    [i \in 1 .. Len(table) |->
                        calculate_channel_khz(get_region(r.region_id, custom, over), table[i])]

\* The application, which gives the name of a region.
set_region_by_name(name, random) ==
    /\ requests < MaxRequests
    /\ set_region(get_region_id_of(name), custom_active_region, overridden, random)
    /\ asked' = get_region_id_of(name)
    /\ UNCHANGED <<single, timed, customised>>

\* Replaces the layer of *region by custom, and sets that region again.
Override(custom, random) ==
    /\ set_region(get_region_id, custom, overridden \cup {get_region_layer(get_region_id)}, random)
    /\ customised' = customised \cup {get_region_id}
    /\ UNCHANGED asked

\* A spacing of 0 would be divided by, and a frequency below the first
\* channel would wrap: the application asks in a region, for a frequency of it.
set_single_frequency(frequency_khz, random) ==
    LET layer == get_region(get_region_id, custom_active_region, overridden)
        channel == calculate_channel_index(layer, frequency_khz)
    IN  /\ requests < MaxRequests
        /\ layer.regulatory_channels.spacing_khz > 0
        /\ frequency_khz >= layer.regulatory_channels.start_freq_khz
        /\ Override([TheRegion EXCEPT !.regulatory_channels.usable = <<channel>>,
                                      !.regulatory_channels.count = 1], random)
        /\ single' = frequency_khz
        /\ timed' = IF get_region_id \in customised THEN timed ELSE TRUE

disable_regulatory_timers(random) ==
    /\ requests < MaxRequests
    /\ Override([TheRegion EXCEPT !.regulatory_timers = Untimed], random)
    /\ timed' = FALSE
    /\ single' = IF get_region_id \in customised THEN single ELSE 0

\* The layer is set to NULL to read the timers of its own region.
\* A mistake: the timers are read while the layer still has the custom region.
TimersInPlace(id) == get_region(id, custom_active_region, overridden).regulatory_timers
DefaultTimers(id) ==
    get_region(id, custom_active_region, overridden \ {get_region_layer(id)}).regulatory_timers
reenable_regulatory_timers(random) ==
    /\ requests < MaxRequests
    /\ Override([TheRegion EXCEPT !.regulatory_timers = DefaultTimers(get_region_id)], random)
    /\ timed' = TRUE
    /\ single' = IF get_region_id \in customised THEN single ELSE 0

(***************************************************************************)
(* The channels.  Indices are those of the code, from 0.                   *)
(***************************************************************************)
get_next_index ==
    IF active_channel_index + 1 = Len(channel_hop_table) THEN 0 ELSE active_channel_index + 1
get_active_channel_khz == channel_table_khz[active_channel_index + 1]
get_next_channel_khz == channel_table_khz[get_next_index + 1]

channel_index_invalid == 65535
get_channel_index(frequency_khz) ==
    LET at == {i \in 1 .. Len(channel_hop_table) : channel_table_khz[i] = frequency_khz}
    IN  IF at = {} THEN channel_index_invalid ELSE Min(at) - 1

\* 0 stands for the error of a channel out of the range.
get_adjacent_channel_khz(index, offset) ==
    LET current == channel_hop_table[index + 1]
        channels == TheRegion.regulatory_channels
        all == IF channels.usable = <<>> THEN Run(1, channels.count) ELSE channels.usable
        at == {i \in 1 .. Len(all) : all[i] = current}
        next == Min(at) + offset
    IN  IF at # {} /\ next \in 1 .. Len(all)
        THEN calculate_channel_khz(get_region(get_region_id, custom_active_region, overridden),
                                   all[next])
        ELSE 0

(***************************************************************************)
(* The synthesizer: F = tcxo * n / (4 * r), in kHz.                        *)
(***************************************************************************)
divider_value_to_index == <<24, 48, 96, 192, 30, 60, 120, 240>>
calculate_r_divider_index(r_divider) ==
    {i \in 1 .. Len(divider_value_to_index) : divider_value_to_index[i] = r_divider}

calculate_n_divider(freq_khz, r_divider) ==
    ((4 * freq_khz * r_divider + TcxoKhz \div 2) \div TcxoKhz) % 65536

get_synthesizer_params(freq_khz) ==
    [r_divider_index |-> Min(calculate_r_divider_index(TheRegion.pll_divider)) - 1,
     n_divider |-> calculate_n_divider(freq_khz, TheRegion.pll_divider)]
get_synthesizer_frequency_khz(params) ==
    (TcxoKhz * params.n_divider) \div (4 * divider_value_to_index[params.r_divider_index + 1])

\* A timer of 0 is off; none may become so.
hw_overshoot_ms == 8
compensate_timer_overshoot(timers) ==
    IF timers.nominal_ms = 0 THEN timers
    ELSE [timers EXCEPT !.nominal_ms = IF hw_overshoot_ms < @ THEN @ - hw_overshoot_ms ELSE 1]
get_next_channel_regulatory_timers ==
    [compensate_timer_overshoot(
        get_region(get_region_id, custom_active_region, overridden).regulatory_timers)
        EXCEPT !.off_same_channel_ms = 0]

(***************************************************************************)
(* A ramp up: the settings of the next channel are built, the chip uses    *)
(* them, and the channel becomes the active one.  Without a region the     *)
(* R divider has no index, and build_cw_configs() gives up.                *)
(***************************************************************************)
ramp_up ==
    /\ Len(radiated) < MaxRamps
    /\ calculate_r_divider_index(TheRegion.pll_divider) # {}
    /\ radiated' = Append(radiated, get_synthesizer_frequency_khz(
                                        get_synthesizer_params(get_next_channel_khz)))
    /\ cw_timers' = get_next_channel_regulatory_timers
    /\ active_channel_index' = get_next_index
    /\ UNCHANGED <<region, overridden, custom_active_region, tables, ghosts, requests>>

Next ==
    \/ \E random \in Randoms :
        \/ \E name \in RegionNames : set_region_by_name(name, random)
        \/ \E frequency_khz \in Frequencies : set_single_frequency(frequency_khz, random)
        \/ disable_regulatory_timers(random)
        \/ reenable_regulatory_timers(random)
    \/ ramp_up

Spec == Init /\ [][Next]_vars

(***************************************************************************)
(* Properties.                                                             *)
(***************************************************************************)
\* What the application asked for, as long as it changed one region only:
\* custom_active_region serves one region at a time.
IsSingle == asked \in customised /\ single > 0
IsTimed == asked \in customised => timed
OneRegionChanged == Cardinality(customised) <= 1
ChannelsAsked ==
    LET channels == DefaultRegion(asked).regulatory_channels
        all == IF channels.usable = <<>>
               THEN 1 .. channels.count ELSE Range(channels.usable)
    IN  {channels.start_freq_khz + (c - 1) * channels.spacing_khz : c \in all}
MayRadiate(khz) ==
    IF IsSingle
    THEN khz <= single /\ single < khz + DefaultRegion(asked).regulatory_channels.spacing_khz
    ELSE khz \in ChannelsAsked

\* The reader hops: every channel of the region is used once before one is
\* used again, the order then repeats, the synthesizer gives each channel's
\* frequency to the kHz, the last one is the active channel, and nothing is
\* sent in a region that does not exist (shuffle_u16(), build_channel_table(),
\* update_active_channel(), calculate_n_divider()).
HopsInTurn ==
    OneRegionChanged =>
        /\ \A i \in 1 .. Len(radiated) :
            /\ MayRadiate(radiated[i])
            /\ \A j \in 1 .. i :
                (radiated[i] = radiated[j]) <=> ((i - j) % Len(channel_hop_table) = 0)
        /\ radiated # <<>> =>
            /\ Last(radiated) = get_active_channel_khz
            /\ ~IsSingle => Range(channel_table_khz) = ChannelsAsked
\* A frequency of the table is found at its own index, which is what the
\* tracking of channel times takes it from, and the neighbour above one is
\* the one it has below it (get_channel_index(), get_adjacent_channel_khz()).
ChannelsAreFound ==
    (radiated = <<>> /\ get_region_id # Ex10RegionId.NOT_DEFINED) =>
        \A index \in 0 .. Len(channel_hop_table) - 1 :
            LET above == get_adjacent_channel_khz(index, 1)
            IN  /\ get_channel_index(channel_table_khz[index + 1]) = index
                /\ above > 0 => /\ get_channel_index(above) # channel_index_invalid
                                /\ get_adjacent_channel_khz(get_channel_index(above), -1)
                                     = channel_table_khz[index + 1]
EveryChannelInTurn == HopsInTurn /\ ChannelsAreFound

\* A test mode stays what was asked for, through any further change and
\* through set_region(), and can be taken back: the timers of a ramp up are
\* off exactly if they were disabled or the region has none, and never
\* longer than the region's (disable_, reenable_regulatory_timers()).
TimersAsAsked ==
    (OneRegionChanged /\ radiated # <<>>) =>
        LET timers == DefaultRegion(asked).regulatory_timers
        IN  /\ (cw_timers.nominal_ms = 0) <=> (~IsTimed \/ timers.nominal_ms = 0)
            /\ cw_timers.regulatory_ms = IF IsTimed THEN timers.regulatory_ms ELSE 0
            /\ cw_timers.nominal_ms <= timers.nominal_ms

\* ex10_active_region.h:67 says of get_region_id(): "The enum of the region
\* which has been set through set_region."
RegionIsWhatWasSet == region # None => get_region_id = asked
=============================================================================
