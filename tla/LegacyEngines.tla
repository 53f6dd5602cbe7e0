---------------------------- MODULE LegacyEngines ----------------------------
(***************************************************************************)
(* The engines of the browser's own nodes (engine/KickEngine.ts, HatEngine.ts,   *)
(* SnareEngine.ts, ClapEngine.ts, SynthEngine.ts): a hit schedules, ahead of      *)
(* time, what its gains will do and from when to when its sources play.        *)
(*                                                                         *)
(* A gain is known by the stretches of time it is open in, a source by the       *)
(* stretch it plays in.  A drum makes its sources anew for each hit, and keeps     *)
(* track of them to stop them when it is disposed of; the synth's run for its      *)
(* lifetime: two oscillators to a voice, alike and so modelled by one, and each     *)
(* with two sources, of which one is heard.                                  *)
(***************************************************************************)
EXTENDS Integers, FiniteSets

CONSTANTS
  Attack,      \* ticks a gain takes to rise
  Close,       \* ticks from the end of the decay until the gain is shut
  Margin,      \* ticks a source plays on after the decay
  BodyDecay,   \* the decay of the snare's body, whatever the knob says,
  BodyStop,    \* and how long its oscillator plays
  Asked,       \* what a knob may ask for, the senseless included
  LongestKick, \* where the setters end: the kick may ring longest,
  Longest,     \* the other drums less; none lets less than a tick through
  Voices,      \* the synth's voices, from 0
  Ahead,       \* how far ahead a hit is scheduled at most
  MaxTime,     \* bound: how far the clock runs
  MaxHits      \* bound: hits ever struck

ASSUME EnginesAssumption ==
  /\ {Attack, Close, Margin, BodyStop, Ahead, MaxTime, MaxHits} \subseteq Nat
  /\ {BodyDecay, LongestKick, Longest} \subseteq Nat \ {0}
  /\ Attack + Close <= Margin /\ Attack + BodyDecay + Close <= BodyStop
  /\ Asked \subseteq Int
  /\ Voices \subseteq Nat /\ \E last \in Voices : Voices = 0..last

\* After anything that is ever scheduled.
Forever == MaxTime + Ahead + Longest + LongestKick + 100
Waves == {"native", "pulse"}

VARIABLES
  kind,       \* the engine
  clock,
  decay,      \* the knob: a drum's decay, the synth's release
  shape,      \* a knob of the engine's own: the clap's ticks between pulses, the synth's coarse tune
  open,       \* gain -> stretches [from, to) it is scheduled to be open in
  playing,    \* sources: [into, from, until], into the gain it is heard through
  activeOscs, activeSources,  \* those that are kept track of
  nextVoice,  \* activeVoiceIndex
  chord,      \* the last notes struck: [at, notes]
  tuned,      \* voice -> source -> pitches written: [at, note, coarse]
  note,       \* voice -> baseFreq, known by the hit that set it
  wired,      \* voice -> the source its output is connected to
  hits,       \* how many were struck
  disposed

knobs == <<decay, shape>>
tracks == <<activeOscs, activeSources>>
voices == <<nextVoice, chord, tuned, note, wired>>
engineVars == <<kind, clock, knobs, open, playing, tracks, voices, hits, disposed>>

VoiceCount == Cardinality(Voices)

Gains == CASE kind = "snare" -> {"body", "noise"}
           [] kind = "synth" -> Voices
           [] OTHER -> {"amp"}

Stretch(from, to) == [from |-> from, to |-> to]
Source(into, from, until) == [into |-> into, from |-> from, until |-> until]
Pitch(at, n, coarse) == [at |-> at, note |-> n, coarse |-> coarse]

InitEngines ==
  /\ kind \in {"kick", "hat", "snare", "clap", "synth"}
  /\ clock = 0 /\ decay \in {1, Longest} /\ shape = 1
  /\ open = [g \in Gains |-> {}]
  /\ playing = (IF kind = "synth" THEN {Source(v, 0, Forever) : v \in Voices} ELSE {})
  /\ activeOscs = playing /\ activeSources = {} /\ nextVoice = 0
  /\ chord = [at |-> 0, notes |-> 0] /\ hits = 0 /\ disposed = FALSE
  /\ tuned = [v \in Voices |-> [w \in Waves |-> {}]] /\ note = [v \in Voices |-> 0]
  /\ wired = [v \in Voices |-> "native"]

----------------------------------------------------------------------------
(* A hit *)

\* cancelScheduledValues(at), and the gain at 0 from there: what was to come is off.
Cancelled(stretches, at) ==
  {Stretch(s.from, IF s.to > at THEN at ELSE s.to) : s \in {s \in stretches : s.from < at}}

Struck(stretches, at, length) == Cancelled(stretches, at) \cup {Stretch(at, at + length)}

\* The ramp up, the decay, and the step down to 0.
Envelope(d) == Attack + d + Close

SourceCutShort(d) == d
SourceLength(d) == d + Margin

\* How long the gains open for, and what plays into them: the kick's oscillator; the hat's noise,
\* and oscillators into a mixer that leads nowhere; the snare's body and wires; the clap's noise,
\* through three pulses and a tail.
Hit(lengths, oscs, sources) == [lengths |-> lengths, oscs |-> oscs, sources |-> sources]
RingOut(at, d) == Source("amp", at, at + SourceLength(d))

KickHit(at) == Hit([amp |-> Envelope(decay)], {RingOut(at, decay)}, {})
HatHit(at) == Hit([amp |-> Envelope(decay)], {[RingOut(at, decay) EXCEPT !.into = "metal"]}, {RingOut(at, decay)})
SnareHit(at) ==
  Hit([body |-> Envelope(BodyDecay), noise |-> Envelope(decay)],
      {Source("body", at, at + BodyStop)}, {[RingOut(at, decay) EXCEPT !.into = "noise"]})
ClapHit(at) == Hit([amp |-> 3 * shape + Envelope(decay)], {}, {RingOut(at, 3 * shape + decay)})

Strike(engine, at, hit) ==
  /\ kind = engine /\ ~disposed /\ hits < MaxHits /\ hits' = hits + 1
  /\ open' = [g \in Gains |-> Struck(open[g], at, hit.lengths[g])]
  /\ playing' = playing \cup hit.oscs \cup hit.sources
  /\ activeOscs' = activeOscs \cup hit.oscs /\ activeSources' = activeSources \cup hit.sources
  /\ UNCHANGED <<kind, clock, knobs, voices, disposed>>

Trigger(at) ==
  \/ Strike("kick", at, KickHit(at)) \/ Strike("hat", at, HatHit(at))
  \/ Strike("snare", at, SnareHit(at)) \/ Strike("clap", at, ClapHit(at))

\* One note is voice 0's, and the next chord begins at 1; a chord takes the voices in turn.  An
\* envelope takes over its gain where it is, and lets go after the note and its release.
NextAfter(voice) == (voice + 1) % VoiceCount
VoicesOf(notes) == IF notes = 1 THEN {0} ELSE {(nextVoice + i) % VoiceCount : i \in 0..(notes - 1)}

\* setFrequencyAtTime goes to both sources, the silent one too; what was written for that very time goes.
TunedTo(pitches, pitch) == {p \in pitches : p.at # pitch.at} \cup {pitch}
FrequencySet(v, pitch) == [w \in Waves |-> TunedTo(tuned[v][w], pitch)]

TriggerSynth(at, notes, duration) ==
  /\ kind = "synth" /\ ~disposed /\ hits < MaxHits /\ hits' = hits + 1
  /\ open' = [v \in Gains |-> IF v \in VoicesOf(notes) THEN Struck(open[v], at, duration + decay) ELSE open[v]]
  /\ nextVoice' = (IF notes = 1 THEN NextAfter(0) ELSE (nextVoice + notes) % VoiceCount)
  /\ chord' = [at |-> at, notes |-> notes]
  /\ note' = [v \in Voices |-> IF v \in VoicesOf(notes) THEN hits' ELSE note[v]]
  /\ tuned' = [v \in Voices |-> IF v \in VoicesOf(notes) THEN FrequencySet(v, Pitch(at, hits', shape)) ELSE tuned[v]]
  /\ UNCHANGED <<kind, clock, knobs, playing, tracks, wired, disposed>>

----------------------------------------------------------------------------
(* A knob *)

Clamp(least, most, asked) == IF asked < least THEN least ELSE IF asked > most THEN most ELSE asked

\* A drum's knob counts from the next hit on.
TurnDrum(engine, longest, asked) ==
  /\ kind = engine /\ ~disposed /\ decay' = Clamp(1, longest, asked)
  /\ UNCHANGED <<kind, clock, shape, open, playing, tracks, voices, hits, disposed>>

TurnKick(asked) == TurnDrum("kick", LongestKick, asked)
TurnHat(asked) == TurnDrum("hat", Longest, asked)
TurnSnare(asked) == TurnDrum("snare", Longest, asked)
TurnClap(asked) ==
  \/ TurnDrum("clap", Longest, asked)
  \/ /\ kind = "clap" /\ ~disposed /\ shape' = Clamp(1, 2, asked)
     /\ UNCHANGED <<kind, clock, decay, open, playing, tracks, voices, hits, disposed>>

\* The synth's go to every voice at once: a release for the next note, a tune that writes the
\* pitch of the note last set, now, even when that note is still to come; and the waveform, which
\* changes the source that is heard and no pitch.
TurnSynth(asked) ==
  /\ kind = "synth" /\ ~disposed
  /\ \/ decay' = Clamp(1, LongestKick, asked) /\ UNCHANGED <<shape, tuned, wired>>
     \/ /\ shape' = Clamp(0, 1, asked)
        /\ tuned' = [v \in Voices |-> FrequencySet(v, Pitch(clock, note[v], shape'))]
        /\ UNCHANGED <<decay, wired>>
     \/ \E w \in Waves : wired' = [v \in Voices |-> w] /\ UNCHANGED <<knobs, tuned>>
  /\ UNCHANGED <<kind, clock, open, playing, tracks, nextVoice, chord, note, hits, disposed>>

Turn(asked) ==
  \/ TurnKick(asked) \/ TurnHat(asked) \/ TurnSnare(asked) \/ TurnClap(asked) \/ TurnSynth(asked)

----------------------------------------------------------------------------
(* The end *)

\* onended: the time has come, and nobody stopped it.
Ended(s) ==
  /\ s.until <= clock /\ ~disposed
  /\ activeOscs' = activeOscs \ {s} /\ activeSources' = activeSources \ {s}
  /\ UNCHANGED <<kind, clock, knobs, open, playing, voices, hits, disposed>>

\* stop() on every source the engine knows of.
Stopped(known) ==
  (playing \ known) \cup {[s EXCEPT !.until = IF s.until < clock THEN s.until ELSE clock] : s \in known}

Disposes(engine, known) ==
  /\ kind = engine /\ ~disposed /\ disposed' = TRUE
  /\ playing' = Stopped(known)
  /\ activeOscs' = activeOscs \ known /\ activeSources' = activeSources \ known
  /\ UNCHANGED <<kind, clock, knobs, open, voices, hits>>

DisposeKick == Disposes("kick", activeOscs)
DisposeHat == Disposes("hat", activeOscs \cup activeSources)
DisposeSnare == Disposes("snare", activeOscs \cup activeSources)
DisposeClap == Disposes("clap", activeSources)
\* A voice stops its oscillator, and disconnects the pulse source, which cannot be stopped.
DisposeSynth == Disposes("synth", activeOscs)
Dispose == DisposeKick \/ DisposeHat \/ DisposeSnare \/ DisposeClap \/ DisposeSynth

\* What is past may be forgotten, but for the pitch that holds.
Holding(pitches) ==
  {p \in pitches : p.at > clock \/ \A q \in pitches : q.at <= clock => q.at <= p.at}

Tick ==
  /\ clock < MaxTime /\ clock' = clock + 1
  /\ open' = [g \in Gains |-> {s \in open[g] : s.to > clock}]
  /\ playing' = {s \in playing : s.until > clock \/ s \in activeOscs \cup activeSources}
  /\ tuned' = [v \in Voices |-> [w \in Waves |-> Holding(tuned[v][w])]]
  /\ UNCHANGED <<kind, knobs, tracks, nextVoice, chord, note, wired, hits, disposed>>

NextEngines ==
  \/ \E at \in clock..(clock + Ahead) :
       \/ Trigger(at)
       \/ \E notes \in 1..VoiceCount, duration \in 1..2 : TriggerSynth(at, notes, duration)
  \/ \E asked \in Asked : Turn(asked)
  \/ \E s \in activeOscs \cup activeSources : Ended(s)
  \/ Dispose \/ Tick

EnginesSpec == InitEngines /\ [][NextEngines]_engineVars

----------------------------------------------------------------------------

Covers(s, st) == s.from <= st.from /\ st.to <= s.until

\* "slightly longer than decay to prevent abrupt cuts before VCA closes" (HatEngine.ts:129):
\* for as long as a gain is open a source of its own plays into it, whatever was retriggered, and
\* the knob turned, before the last hit had rung out.
GainsAreFed ==
  ~disposed => \A g \in Gains : \A st \in open[g] : st.to > clock => \E s \in playing : s.into = g /\ Covers(s, st)

\* An engine that is disposed of plays nothing on.
NothingPlaysOn == disposed => \A s \in playing : s.until <= clock

\* Every note of the last chord has a voice of its own.
ChordIsWhole ==
  kind = "synth" /\ clock <= chord.at /\ chord.notes > 0
    => Cardinality({v \in Voices : \E st \in open[v] : st.from = chord.at}) >= chord.notes

\* "Frequency and detune writes fan out to BOTH sources so a mid-note waveform swap preserves pitch"
\* (Oscillator.ts:13-14): whichever source a voice is wired to, it holds the same pitch, now and for
\* the note to come.
SwapKeepsPitch == \A v \in Voices, w \in Waves : tuned[v][w] = tuned[v][wired[v]]

\* Every hit sounds for its length and no longer, on voices and at a pitch of its own.
HitsAreHeard == GainsAreFed /\ NothingPlaysOn /\ ChordIsWhole /\ SwapKeepsPitch
=============================================================================
