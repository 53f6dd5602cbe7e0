----------------------------- MODULE SoundKernels -----------------------------
(***************************************************************************)
(* The worklet kernels that turn triggers into sound, packages/client/src/  *)
(* engine/*2/kernel: the eight-voice Synth2Kernel with its envelopes and    *)
(* voice allocation, and the four one-voice drum kernels.  All share one    *)
(* event loop: hits wait in a ring until the block they are due in, and the  *)
(* block is rendered piece by piece between them.                           *)
(*                                                                         *)
(* Sound is abstracted to what decides when a voice starts and stops: the   *)
(* amplitude envelope of a synth voice, as a level that moves one unit a    *)
(* frame, and the time since the hit of a drum.  Pitch, waveforms, filters, *)
(* modulation and the parameters that only colour the sound are left out.   *)
(***************************************************************************)
EXTENDS Integers, Sequences, FiniteSets, SequencesExt

CONSTANTS
  Voice,       \* 0..VOICE_COUNT-1
  MaxEvents,   \* MAX_EVENTS of a ring
  Top,         \* the level an attack reaches
  Sustain      \* env1.s

ASSUME KernelAssumption ==
  /\ Voice = 0..(Cardinality(Voice) - 1) /\ Voice # {}
  /\ MaxEvents \in Nat \ {0}
  /\ Top \in Nat \ {0} /\ Sustain \in 0..Top

Larger(x, y) == IF x > y THEN x ELSE y

-----------------------------------------------------------------------------
(* The ring of hits that every kernel keeps *)

\* noteOn of a kernel: a full ring gives up its oldest hit.
Queued(events, hit) ==
  Append(IF Len(events) = MaxEvents THEN Tail(events) ELSE events, hit)

\* The hits a block takes: those at the head that fall before its end.
DueIn(events, end) ==
  LET late == {i \in DOMAIN events : events[i].frame >= end}
      n    == IF late = {} THEN Len(events) ELSE (CHOOSE i \in late : \A j \in late : i <= j) - 1
  IN SubSeq(events, 1, n)

\* Where in the block a hit falls; one whose time has passed falls at its start.
Offset(hit, start) == Larger(0, hit.frame - start)

\* process(out, frames, start): Render(k, n) renders n frames of kernel k, Strike(k, hit)
\* starts a hit.  work counts the frames rendered.
Processed(kernel, frames, start, Render(_, _), Strike(_, _)) ==
  LET RenderTo(st, to) ==
        IF to <= st.cursor THEN st
        ELSE [st EXCEPT !.k = Render(@, to - st.cursor), !.work = @ + (to - st.cursor)]
      Hit(st, hit) ==
        LET at == Offset(hit, start)
            rendered == RenderTo(st, at)
        IN [rendered EXCEPT !.k = Strike(@, hit), !.cursor = at]
      due  == DueIn(kernel.events, start + frames)
      rest == SubSeq(kernel.events, Len(due) + 1, Len(kernel.events))
      done == RenderTo(FoldLeft(Hit, [k |-> kernel, cursor |-> 0, work |-> 0], due), frames)
  IN [k |-> [done.k EXCEPT !.events = rest], work |-> done.work]

-----------------------------------------------------------------------------
(* LoopEnvelope: the amplitude envelope of a synth voice *)

Silent == [stage |-> "idle", level |-> 0, gate |-> 0]

Sounding(v) == v.stage # "idle"

\* A noteOn that cuts a sounding note off instead of ramping it down.
CutNoteOn(v, gate) == [stage |-> "attack", level |-> 0, gate |-> Larger(1, gate)]

\* noteOn: a voice that still sounds is ramped to zero before the attack.
EnvNoteOn(v, gate) ==
  [v EXCEPT !.stage = IF v.level > 0 THEN "steal" ELSE "attack",
            !.gate = Larger(1, gate)]

\* The level of a stage and the stage it moves to; a looping note never rests.
Staged(v, loop) ==
  CASE v.stage = "steal"   -> IF v.level <= 1 THEN [v EXCEPT !.level = 0, !.stage = "attack"]
                              ELSE [v EXCEPT !.level = @ - 1]
    [] v.stage = "attack"  -> IF v.level + 1 >= Top THEN [v EXCEPT !.level = Top, !.stage = "decay"]
                              ELSE [v EXCEPT !.level = @ + 1]
    [] v.stage = "decay"   -> IF v.level - 1 <= Sustain
                              THEN [v EXCEPT !.level = Sustain,
                                             !.stage = IF loop THEN "attack" ELSE "sustain"]
                              ELSE [v EXCEPT !.level = @ - 1]
    [] v.stage = "sustain" -> IF loop THEN [v EXCEPT !.stage = "attack"]
                              ELSE [v EXCEPT !.level = Sustain]
    [] v.stage = "release" -> IF v.level <= 1 THEN Silent ELSE [v EXCEPT !.level = @ - 1]
    [] OTHER               -> v

\* A gate that runs out in the resting stage only.
GatedAtRest(v) ==
  IF v.stage # "sustain" THEN v
  ELSE [v EXCEPT !.gate = @ - 1, !.stage = IF v.gate <= 1 THEN "release" ELSE @]

\* The gate runs down through every stage but the release it ends in.
Gated(v) ==
  IF v.stage \in {"idle", "release"} THEN v
  ELSE [v EXCEPT !.gate = @ - 1, !.stage = IF v.gate <= 1 THEN "release" ELSE @]

EnvNext(v, loop) == Gated(Staged(v, loop))

\* renderAdd of a voice over n frames.
VoiceRendered(voice, loop, n) ==
  LET after[i \in 0..n] == IF i = 0 THEN voice ELSE EnvNext(after[i - 1], loop)
  IN after[n]

-----------------------------------------------------------------------------
(* Synth2Kernel *)

NewSynth ==
  [voices |-> [v \in Voice |-> Silent],
   ages   |-> [v \in Voice |-> 0],
   rr     |-> 0,        \* where the search for a free voice starts
   age    |-> 1,        \* ageCounter
   loop   |-> FALSE,    \* env1.loop of the block
   events |-> <<>>]

\* renderActive: idle voices are skipped.
SynthRendered(k, n) ==
  [k EXCEPT !.voices = [v \in Voice |-> IF Sounding(@[v]) THEN VoiceRendered(@[v], k.loop, n)
                                        ELSE @[v]]]

\* pickVoice: the first free voice from rr on, else the one allocated longest ago.
PickVoice(k) ==
  LET n     == Cardinality(Voice)
      Nth(i) == (k.rr + i) % n
      free  == {i \in 0..(n - 1) : ~Sounding(k.voices[Nth(i)])}
  IN IF free # {}
     THEN Nth(CHOOSE i \in free : \A j \in free : i <= j)
     ELSE CHOOSE v \in Voice : \A w \in Voice : k.ages[v] < k.ages[w] \/ (k.ages[v] = k.ages[w] /\ v <= w)

\* A struck voice that keeps the age it had.
AgelessStruck(k, hit) ==
  LET v == IF hit.mono THEN 0 ELSE PickVoice(k)
  IN [k EXCEPT !.voices[v] = EnvNoteOn(@, hit.gate), !.rr = (v + 1) % Cardinality(Voice)]

\* A mono note plays voice 0; a note of a chord the voice that is picked for it.
SynthStruck(k, hit) ==
  LET v == IF hit.mono THEN 0 ELSE PickVoice(k)
      struck == [k EXCEPT !.voices[v] = EnvNoteOn(@, hit.gate)]
  IN IF hit.mono THEN struck
     ELSE [struck EXCEPT !.rr = (v + 1) % Cardinality(Voice), !.ages[v] = k.age, !.age = @ + 1]

SynthProcessed(k, frames, start) == Processed(k, frames, start, SynthRendered, SynthStruck)

-----------------------------------------------------------------------------
(* The drum kernels.  A drum's knobs are the lengths that decide its tail. *)

NewDrum(knobs) == [active |-> FALSE, t |-> 0, last |-> 0, knobs |-> knobs, events |-> <<>>]

\* A kick or a hat sounds for its decay.
KickTail(d) == d.knobs.decay

HatTail(d) == d.knobs.decay

\* A snare for the longer of shell and wires.
SnareTail(d) == Larger(d.knobs.decay, d.knobs.noise)

\* A clap for its last slap, and until the longer of body and room has died away after.
ClapTail(d) == d.last + Larger(d.knobs.decay, d.knobs.noise)

TailOf(kind, d) ==
  CASE kind = "kick2"  -> KickTail(d)
    [] kind = "hat2"   -> HatTail(d)
    [] kind = "snare2" -> SnareTail(d)
    [] kind = "clap2"  -> ClapTail(d)

\* trigger() of a clap draws where its slaps fall; the knobs turned later change the tail
\* only.
LastSlap(knobs) == (knobs.bursts - 1) * knobs.spread

\* A retrigger starts the one voice over.
DrumStruck(d, hit) == [d EXCEPT !.active = TRUE, !.t = 0, !.last = LastSlap(d.knobs)]

\* render(): the voice ends once its tail has died away.
DrumRendered(kind, d, n) ==
  LET after[i \in 0..n] ==
        IF i = 0 THEN d
        ELSE LET prev == after[i - 1]
             IN IF ~prev.active THEN prev
                ELSE IF prev.t > 0 /\ prev.t >= TailOf(kind, prev) THEN [prev EXCEPT !.active = FALSE]
                ELSE [prev EXCEPT !.t = @ + 1]
  IN after[n]

DrumProcessed(kind, d, frames, start) ==
  Processed(d, frames, start, LAMBDA k, n : DrumRendered(kind, k, n), DrumStruck)
=============================================================================
