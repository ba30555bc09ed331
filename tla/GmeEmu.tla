------------------------------ MODULE GmeEmu ------------------------------
(***************************************************************************)
(* An emulator as gme.h's caller has it: files and playlists are loaded,   *)
(* tracks started, voices muted, effects turned on and off, and sound is   *)
(* taken in blocks, by the layers from Gme_File down to Effects_Buffer.    *)
(* Above play_() is MusicStream, inside run_clocks() NsfCapture.           *)
(***************************************************************************)
EXTENDS RomData, BlipBuffers, SequencesExt
M3u == INSTANCE M3uPlaylist

CONSTANTS Rate,               \* samples per second, given to gme_new_emu()
          Groups,             \* how many voice groups the new emulators have: 1, or 8 (multi-channel)
          Files,              \* what the caller loads
          Playlists,          \* <<how it is read, its lines>>
          Masks, Blocks,      \* sets of voices it mutes; sizes of the blocks it plays
          BankWrites,         \* <<slot, bank>> a tune writes while it plays
          Overshoot,          \* how far the last instruction may pass the end of a frame
          BeyondTypes,        \* what may lie in memory behind voice types
          MaxLoads, MaxLists, MaxSettings, MaxStarts, MaxPlays     \* calls of each kind

\* A bound of the model: the code checks no rate.
ASSUME RateAssumption == Rate \in Nat /\ 2000 <= Rate /\ Rate <= 192000
\* The fields of a header; a file whose header counts no tracks has none to start.
ASSUME FilesAssumption ==
    \A f \in Files : /\ f.tracks \in Nat \ {0} /\ f.length \in Nat /\ f.load \in Nat
                     /\ f.chips \subseteq {"vrc6", "namco", "fme7", "fds", "mmc5", "vrc7"}
                     /\ f.banks \in [1 .. 8 -> Nat]
ASSUME GroupsAssumption == Groups \subseteq {1, 8}
ASSUME BlocksAssumption == Blocks \subseteq Nat
ASSUME OvershootAssumption == Overshoot \subseteq 0 .. 7
ASSUME BankWritesAssumption == BankWrites \subseteq (1 .. 8) \X Nat
ASSUME BeyondAssumption == BeyondTypes \subseteq [noise : BOOLEAN, index : Int]

VARIABLES emu,                \* what Gme_File, Music_Emu and Nsf_Emu know of the file and the track
          osc,                \* the buffer each oscillator adds to, or NoBuffer
          fx,                 \* the Effects_Buffer
          remain,             \* frames of samples play_() has yet to deliver
          due, read,          \* history since the last clear: time emulated, samples delivered
          alive,              \* the caller has an emulator
          calls               \* how many calls of each kind there were

vars == <<emu, osc, fx, remain, due, read, alive, calls>>

----------------------------------------------------------------------------
\* Voices. Each chip's oscillators follow those of the chips before it.

NoBuffer == -1
OscCount == [apu |-> 5, vrc6 |-> 3, namco |-> 8, fme7 |-> 3, fds |-> 1, mmc5 |-> 3, vrc7 |-> 6]
Oscillators(chip) == {chip} \X (0 .. OscCount[chip] - 1)
AllOscillators == UNION {Oscillators(chip) : chip \in DOMAIN OscCount}

\* Which voice a chip's first oscillator is, if the header names the chip: init_sound() counts
\* the voices in this order, and set_voice() takes it off again.
FirstVoice(chips) ==
    LET Voices(chip) == IF chip \in chips THEN OscCount[chip] ELSE 0
        namco == OscCount["apu"] + Voices("vrc6")
        fme7  == namco + Voices("namco")
        fds   == fme7 + Voices("fme7")
        mmc5  == fds + Voices("fds")
        vrc7  == mmc5 + Voices("mmc5")
    IN [apu |-> 0, vrc6 |-> OscCount["apu"], namco |-> namco, fme7 |-> fme7, fds |-> fds,
        mmc5 |-> mmc5, vrc7 |-> vrc7, all |-> vrc7 + Voices("vrc7")]
VoiceCount(chips) == FirstVoice(chips).all

\* set_voice(): the oscillator of voice i; the VRC6's saw, its last, comes first.
NoOsc == <<"none", 0>>
VoiceOsc(chips, i) ==
    LET first       == FirstVoice(chips)
        Place(chip) == i - first[chip]
        Has(chip)   == Place(chip) \in 0 .. OscCount[chip] - 1
        Osc(chip)   == <<chip, IF chip = "vrc6" THEN (Place(chip) + 2) % 3 ELSE Place(chip)>>
    IN IF \E chip \in chips \cup {"apu"} : Has(chip)
       THEN Osc(CHOOSE chip \in chips \cup {"apu"} : Has(chip)) ELSE NoOsc

\* The table of init_sound(). A voice behind its end has the type the memory there has.
Wave(n) == [noise |-> FALSE, index |-> n]
Noise(n) == [noise |-> TRUE, index |-> n]
Types == <<Wave(1), Wave(2), Wave(0), Noise(0), Noise(1)>> \o [n \in 1 .. 11 |-> Wave(n + 2)]
TypeOf(i, beyond) == IF i < Len(Types) THEN Types[i + 1] ELSE beyond

\* mute_voices_(): a muted voice has no buffer, the others that of their channel.
Wanted(e, x, i, beyond) ==
    IF i \in e.muted THEN NoBuffer ELSE Center(x, i, TypeOf(i, beyond))
\* Mutant of MuteVoices: a voice that is muted is passed over.
MuteOnlyOthers(e, x, outputs, beyond) ==
    LET oscs      == [i \in 0 .. e.voices - 1 |-> VoiceOsc(e.chips, i)]
        Voices(w) == {i \in DOMAIN oscs : oscs[i] = w} \ e.muted
    IN [w \in DOMAIN outputs |->
           IF Voices(w) = {} THEN outputs[w] ELSE Wanted(e, x, Min(Voices(w)), beyond)]
\* The loop goes down, so that the lowest voice of an oscillator would be the one that counts.
MuteVoices(e, x, outputs, beyond) ==
    LET oscs      == [i \in 0 .. e.voices - 1 |-> VoiceOsc(e.chips, i)]
        Voices(w) == {i \in DOMAIN oscs : oscs[i] = w}
    IN [w \in DOMAIN outputs |->
           IF Voices(w) = {} THEN outputs[w] ELSE Wanted(e, x, Min(Voices(w)), beyond)]

----------------------------------------------------------------------------
\* Files. An emulator with no file has no ROM, chips, voices, tracks or playlist.

NoTrack == -1
NewEmu == [chips |-> {}, voices |-> 0, muted |-> {}, seen |-> 0, clock |-> 1, pal |-> FALSE,
           rom |-> NoRom, banks |-> <<>>, map |-> <<>>, raw |-> 0, tracks |-> 0,
           list |-> <<>>, track |-> NoTrack, started |-> FALSE]

ClearPlaylist(e) == [e EXCEPT !.list = <<>>, !.tracks = e.raw]
ClearTrackVars(e) == [e EXCEPT !.track = NoTrack, !.started = FALSE]
UnloadFile(e) == [ClearPlaylist(e) EXCEPT !.tracks = 0, !.raw = 0]
Unload(e) ==
    UnloadFile(ClearTrackVars([e EXCEPT !.chips = {}, !.rom.bytes = 0, !.voices = 0]))
\* The oscillators of the chips go with them; the APU is the emulator's own.
UnloadOsc(o) == [w \in AllOscillators |-> IF w[1] = "apu" THEN o[w] ELSE NoBuffer]

HeaderSize == 128
RomBegin == 32768
BankCount == 8
\* An address that a header leaves at 0.
OrRomBegin(a) == IF a = 0 THEN RomBegin ELSE a
\* The banks a file starts with: its own pages in order, or those its header asks for.
InitialBanks(f, total) ==
    LET first == (OrRomBegin(f.load) - RomBegin) \div Unit
    IN IF \E i \in 1 .. BankCount : f.banks[i] # 0 THEN f.banks
       ELSE [i \in 1 .. BankCount |-> IF i - 1 - first \in 0 .. total - 1 THEN i - 1 - first ELSE 0]

ClockRate(pal) == IF pal THEN 1662607 ELSE 1789773

\* Nsf_Emu::load_(), to the first error: [err, emu]. Errors leave what was set before them.
LoadNsf(e, x, f) ==
    LET rom0   == LoadRom(f.length, HeaderSize)
        loaded == [e EXCEPT !.rom = rom0]
        counted == [loaded EXCEPT !.raw = f.tracks, !.tracks = f.tracks]
        voiced == [counted EXCEPT !.chips = f.chips, !.voices = VoiceCount(f.chips)]
        rom    == SetAddr(rom0, OrRomBegin(f.load) % Unit)
        empty  == [e EXCEPT !.rom = NoRom]
    IN IF f.length <= HeaderSize THEN [err |-> "Wrong file type", emu |-> empty]
       ELSE IF ~f.reads THEN [err |-> "Couldn't read", emu |-> empty]
       ELSE IF f.magic # "NESM\\x1A" THEN [err |-> "Wrong file type", emu |-> counted]
       ELSE IF OrRomBegin(f.load) < RomBegin \/ OrRomBegin(f.init) < RomBegin
            THEN [err |-> "Corrupt file", emu |-> voiced]
       ELSE [err |-> "",
             emu |-> [voiced EXCEPT !.rom = rom, !.pal = f.pal, !.clock = ClockRate(f.pal),
                                    !.banks = InitialBanks(f, rom.size \div Unit),
                                    !.seen = x.changes]]

\* Mutant of PostLoad: Gme_File's unload() in place of the emulator's own.
PostLoadOfFile(result) == IF result.err = "" THEN result.emu ELSE UnloadFile(result.emu)
\* post_load(): all of it, or nothing.
PostLoad(result) == IF result.err = "" THEN result.emu ELSE Unload(result.emu)

----------------------------------------------------------------------------
\* Calls. Each runs to its end before the next; only play_() is several steps.

Init ==
    /\ emu = NewEmu /\ remain = 0 /\ due = 0 /\ read = 0 /\ alive = FALSE
    /\ osc = [w \in AllOscillators |-> NoBuffer]
    /\ \E g \in Groups : fx = NewEffects(g)
    /\ calls = [loads |-> 0, lists |-> 0, settings |-> 0, starts |-> 0, plays |-> 0]

Idle == alive /\ remain = 0
Call(kind, limit) == calls[kind] < limit /\ calls' = [calls EXCEPT ![kind] = @ + 1]
SameSound == UNCHANGED <<fx, remain, due, read>>

\* A new emulator: its buffers are empty and nothing is connected to them.
Renewed(g) ==
    /\ fx' = NewEffects(g) /\ remain' = 0 /\ due' = 0 /\ read' = 0

\* gme_new_emu(), gme_new_emu_multi_channel().
New(g) ==
    /\ ~alive /\ alive' = TRUE
    /\ Renewed(g) /\ emu' = NewEmu
    /\ osc' = [w \in AllOscillators |-> NoBuffer]
    /\ UNCHANGED calls

\* gme_identify_extension() of a path or of what the first four bytes say.
Identified(f, by_path) ==
    (by_path /\ f.extension) \/ (f.length >= 4 /\ f.magic \in {"NESM", "NESM\\x1A"})

LoadInto(e, x, o, f) ==
    LET loaded == PostLoad(LoadNsf(Unload(e), x, f))
    IN \E beyond \in BeyondTypes :
          /\ emu' = loaded
          /\ osc' = MuteVoices(loaded, x, UnloadOsc(o), beyond)

\* gme_open_data(), gme_open_file(): no emulator is left of a file that does not load.
Open(f, by_path) ==
    /\ ~alive /\ Call("loads", MaxLoads)
    /\ IF Identified(f, by_path) /\ LoadNsf(NewEmu, NewEffects(1), f).err = ""
       THEN /\ alive' = TRUE /\ Renewed(1)
            /\ LoadInto(NewEmu, NewEffects(1), [w \in AllOscillators |-> NoBuffer], f)
       ELSE UNCHANGED <<alive, emu, osc, fx, remain, due, read>>

Delete ==
    /\ Idle /\ alive' = FALSE
    /\ Renewed(fx.groups) /\ emu' = NewEmu
    /\ osc' = [w \in AllOscillators |-> NoBuffer]
    /\ UNCHANGED calls

\* gme_load_data(), gme_load_file(): whatever was loaded is gone, also when this fails.
Load(f) ==
    /\ Idle /\ Call("loads", MaxLoads)
    /\ LoadInto(emu, fx, osc, f)
    /\ SameSound /\ UNCHANGED alive

\* A path that does not open, or gme_load_tracks(), which an NSF refuses once it is unloaded.
LoadNothing ==
    /\ Idle /\ Call("loads", MaxLoads)
    /\ emu' = Unload(emu) /\ osc' = UnloadOsc(osc)
    /\ SameSound /\ UNCHANGED alive

\* gme_load_m3u(), gme_load_m3u_data(). A text that is no playlist leaves no entries, one that
\* cannot be read those there were; the track count follows only a playlist.
LoadM3u(p) ==
    LET list == IF p[1] = "unread" THEN emu.list ELSE M3u!Parse(p[2]).entries
        ok   == p[1] = "read" /\ M3u!Parse(p[2]).err = ""
    IN /\ Idle /\ emu.raw > 0 /\ Call("lists", MaxLists)
       /\ emu' = [emu EXCEPT !.list = list, !.tracks = IF ok THEN Len(list) ELSE @]
       /\ UNCHANGED osc /\ SameSound /\ UNCHANGED alive

DropPlaylist ==
    /\ Idle /\ Call("lists", MaxLists)
    /\ emu' = ClearPlaylist(emu)
    /\ UNCHANGED osc /\ SameSound /\ UNCHANGED alive

\* remap_track_(): the NSF's track of a playlist's entry, or InvalidTrack.
InvalidTrack == -2
RemapTrack(e, t) ==
    IF t \notin 0 .. e.tracks - 1 THEN InvalidTrack
    ELSE IF t >= Len(e.list) THEN t
    ELSE LET entry == e.list[t + 1]
             mine  == IF entry.track >= 0 THEN entry.track - entry.decimal ELSE 0
         IN IF mine >= e.raw THEN InvalidTrack ELSE mine

\* bank_select writes map a page of the ROM, or the padding, where the CPU reads it.
Window(e, bank) == AtAddr(e.rom, MaskAddr(e.rom, bank * Unit))

\* Music_Emu::start_track(): the buffers are cleared and the tune's banks mapped.
StartTrack(t) ==
    LET stopped == ClearTrackVars(emu)
        mine    == RemapTrack(emu, t)
    IN /\ Idle /\ Call("starts", MaxStarts)
       /\ IF mine = InvalidTrack THEN emu' = stopped /\ SameSound
          ELSE /\ emu' = [stopped EXCEPT !.track = mine, !.started = TRUE,
                                         !.map = [i \in 1 .. BankCount |-> Window(emu, emu.banks[i])]]
               /\ fx' = ClearAll(fx)
               /\ due' = 0 /\ read' = 0 /\ UNCHANGED remain
       /\ UNCHANGED <<osc, alive>>

Mute(mask) ==
    LET e == [emu EXCEPT !.muted = mask]
    IN /\ Idle /\ Call("settings", MaxSettings)
       /\ emu' = e
       /\ \E beyond \in BeyondTypes : osc' = MuteVoices(e, fx, osc, beyond)
       /\ SameSound /\ UNCHANGED alive

\* gme_set_stereo_depth(): the voices are told at the next frame.
SetStereoDepth(on) ==
    /\ Idle /\ Call("settings", MaxSettings)
    /\ fx' = SetDepth(fx, on)
    /\ UNCHANGED <<emu, osc, remain, due, read, alive>>

----------------------------------------------------------------------------
\* Classic_Emu::play_(), which delivers what the buffers hold and runs the chips for more.

Play(block) ==
    /\ Idle /\ emu.started /\ Call("plays", MaxPlays)
    /\ remain' = block \div (2 * fx.groups)
    /\ UNCHANGED <<emu, osc, fx, due, read, alive>>

ReadSamples ==
    LET n == Count(fx, remain)
    IN /\ remain > 0 /\ n > 0
       /\ fx' = ReadChunk(fx, n)
       /\ remain' = remain - n /\ read' = read + n
       /\ UNCHANGED <<emu, osc, due, alive, calls>>

\* A write of the tune's to $5FF8-$5FFF.
SwitchBank(e, w) == [e EXCEPT !.map[w[1]] = Window(e, w[2])]

\* run_clocks() and end_frame(): each oscillator adds to its buffer all through the frame.
Clocks(e) == (Length(Rate) * e.clock) \div 1000
Frame(over, w) ==
    LET clocks == Clocks(emu) + over
        factor == Factor(Rate, emu.clock)
        told   == {MuteVoices(emu, fx, osc, beyond) : beyond \in BeyondTypes}
    IN /\ remain > 0 /\ Count(fx, remain) = 0
       /\ \E o \in IF emu.seen # fx.changes THEN told ELSE {osc} :
             LET modified == {o[v] : v \in AllOscillators} \ {NoBuffer}
             IN /\ osc' = o
                /\ fx' = EndEffectsFrame(
                             [fx EXCEPT !.bufs = [b \in DOMAIN @ |->
                                 IF b \in modified THEN AddDeltas(@[b], clocks, factor) ELSE @[b]]],
                             modified, clocks, factor)
       /\ emu' = SwitchBank([emu EXCEPT !.seen = fx.changes], w)
       /\ due' = due + clocks * factor
       /\ UNCHANGED <<remain, read, alive, calls>>

PlayOn == ReadSamples \/ \E over \in Overshoot, w \in BankWrites : Frame(over, w)

Next ==
    \/ \E g \in Groups : New(g)
    \/ \E f \in Files, by_path \in BOOLEAN : Open(f, by_path)
    \/ Delete
    \/ \E f \in Files : Load(f)
    \/ LoadNothing
    \/ \E p \in Playlists : LoadM3u(p)
    \/ DropPlaylist
    \/ \E t \in 0 .. 3 : StartTrack(t)
    \/ \E mask \in Masks : Mute(mask)
    \/ \E on \in BOOLEAN : SetStereoDepth(on)
    \/ \E block \in Blocks : Play(block)
    \/ PlayOn

Spec == Init /\ [][Next]_vars

----------------------------------------------------------------------------

\* The room of the buffers: a frame's time ends inside buffer_size_, where Blip_Synth's assert
\* wants every delta, and no delta reaches past the extra samples behind it.
FramesFit ==
    \A b \in DOMAIN fx.bufs :
        /\ fx.bufs[b].offset \in 0 .. BufferSize(Rate) * One - 1
        /\ fx.bufs[b].dirty \in 0 .. BufferSize(Rate) + Extra

\* "keep time synchronized" (Effects_Buffer.cpp): whichever mixers read, in whichever chunks,
\* every buffer holds the time emulated since the last clear less the samples delivered.
KeepsTime == \A b \in DOMAIN fx.bufs : fx.bufs[b].offset = due - read * One

\* The buffers that are skipped as silence are silent: whatever a chip has put into a buffer is
\* in one the next chunk's mixer adds up, while effects come and go between and within frames.
NothingIsSkipped ==
    \A b \in DOMAIN fx.bufs :
        fx.bufs[b].dirty > 0 /\ Avail(fx.bufs[b]) > 0 => Side(b) \in Mixer(fx).heard

\* At every frame each oscillator of the file's chips has a voice, and adds to the buffer that
\* voice has by the masks and effects of now: not to one it was given before they changed.
VoicesFollowConfig ==
    [][due' > due =>
          \A w \in UNION {Oscillators(chip) : chip \in emu.chips \cup {"apu"}} :
             \E i \in 0 .. emu.voices - 1, beyond \in BeyondTypes :
                VoiceOsc(emu.chips, i) = w /\ osc'[w] = Wanted(emu, fx, i, beyond)]_vars

\* Track count "0 if no file has been loaded" (Gme_File.h): a load that fails, at whichever
\* step, leaves an emulator with no ROM, chips, voices or playlist of this file or the one
\* before, and no track playing from it.
FailedLoadLeavesNothing ==
    emu.tracks = 0 => /\ emu.rom.bytes = 0 /\ emu.chips = {} /\ emu.voices = 0
                      /\ emu.list = <<>> /\ emu.raw = 0 /\ ~emu.started
                      /\ \A w \in AllOscillators : w[1] # "apu" => osc[w] = NoBuffer

\* While a tune runs each of its pages, and the bytes an instruction reaches past it, lies in
\* the ROM's vector, and a page of the file holds the file's own bytes of that page.
BanksAreInRom ==
    emu.started =>
        \A i \in 1 .. BankCount :
            /\ InRom(emu.rom, emu.map[i])
            /\ emu.map[i] > 0 =>
                  \E k \in 0 .. emu.rom.size \div Unit - 1 : \A j \in {0, Unit - 1} :
                     LET a == k * Unit + j - (emu.rom.addr + Unit + PadExtra)
                     IN RomByte(emu.rom, emu.map[i] + j) =
                           IF a \in 0 .. emu.rom.file - 1 THEN a ELSE Filling

\* Each turn of play_()'s loop delivers samples, or runs a frame after which there are some: the
\* loop cannot spin, at any rate and in either region.
PlayAdvances ==
    [][remain > 0 => \/ remain' < remain /\ read' > read
                     \/ remain' = remain /\ Count(fx, remain) = 0 /\ Count(fx', remain) > 0]_vars

\* "Invalid track in m3u playlist" (Gme_File.cpp): a track that starts is one the NSF has.
StartedTrackExists == emu.started => emu.track \in 0 .. emu.raw - 1
============================================================================
