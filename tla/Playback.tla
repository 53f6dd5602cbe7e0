------------------------------- MODULE Playback -------------------------------
(***************************************************************************)
(* A pattern being played: the transport (Sequencer) hands out steps,       *)
(* resolveStepTriggers turns each into the triggers of the tracks, the      *)
(* engines post these to their worklet nodes, and the kernels               *)
(* (SoundKernels) render them.  Three threads of control meet: the timer    *)
(* and the edits on the page, the delivery of the messages, and the audio   *)
(* thread, which renders block after block whatever the others do.          *)
(*                                                                         *)
(* One track, of a synth2 or of one of the drums: tracks share the clock    *)
(* and nothing else.  Slots, engine swaps and the boot of the audio graph   *)
(* are the AudioEngine module's.                                            *)
(***************************************************************************)
EXTENDS Sequencer, SoundKernels

CONSTANTS
  Patterns,    \* step grids: sequences of [note, length] records
  DefaultSteps,
  ChordSize,   \* notes of a chord
  DrumKinds,   \* the drum engines
  Knobs,       \* settings of a drum
  DefaultKnobs,
  MaxTime,     \* bound: when the last command is given and the last tick runs
  MaxCommands  \* bound: starts and edits

VARIABLES
  track,       \* the project's track: engine, steps, and mode and loop or knobs
  port,        \* messages posted to the track's node and not yet delivered
  kernel,      \* the kernel of the node
  rendered,    \* frames it rendered in the last block
  commands     \* starts and edits made, to bound them

soundVars == <<port, kernel, rendered>>
playVars == <<seqVars, track, soundVars, commands>>

IsSynth == track.engine = "synth2"

InitPlayback ==
  /\ Init
  /\ \E engine \in {"synth2"} \cup DrumKinds :
       track = [engine |-> engine, steps |-> DefaultSteps, mode |-> "mono", loop |-> FALSE,
                knobs |-> DefaultKnobs]
  /\ port = <<>>
  /\ kernel = IF IsSynth THEN NewSynth ELSE NewDrum(track.knobs)
  /\ rendered = BlockSize
  /\ commands = 0

-----------------------------------------------------------------------------
(* Commands and edits *)

InTime == now < MaxTime

Command ==
  /\ Idle /\ InTime /\ commands < MaxCommands
  /\ commands' = commands + 1

\* togglePlay and stopPlayback, once the graph is up.
Play == Command /\ Start /\ UNCHANGED <<track, soundVars>>

Pause == Stop /\ UNCHANGED <<track, soundVars, commands>>

\* The tempo, the grid and the mode are read when the next step comes up.
EditTempo ==
  /\ Command
  /\ \E b \in Tempo : SetBpm(b)
  /\ UNCHANGED <<track, soundVars>>

EditGrid ==
  /\ Command
  /\ \E steps \in Patterns, mode \in {"mono", "poly"} :
       track' = [track EXCEPT !.steps = steps, !.mode = mode]
  /\ UNCHANGED <<seqVars, soundVars>>

\* A change of a parameter is posted to the node: applyParams of the engines.
EditLoop ==
  /\ Command /\ IsSynth
  /\ track' = [track EXCEPT !.loop = ~@]
  /\ port' = Append(port, [type |-> "params", loop |-> ~track.loop])
  /\ UNCHANGED <<seqVars, kernel, rendered>>

EditKnobs ==
  /\ Command /\ ~IsSynth
  /\ \E knobs \in Knobs \ {track.knobs} :
       /\ track' = [track EXCEPT !.knobs = knobs]
       /\ port' = Append(port, [type |-> "params", knobs |-> knobs])
  /\ UNCHANGED <<seqVars, kernel, rendered>>

-----------------------------------------------------------------------------
(* Scheduling *)

\* resolveStepTriggers and the trigger of the engine: a chord is as many messages as it
\* has notes; a drum voices pitch and length itself.
Triggers(step, time) ==
  LET at    == track.steps[1 + (step % Len(track.steps))]
      notes == IF IsSynth /\ track.mode = "poly" THEN ChordSize ELSE 1
  IN IF ~at.note THEN <<>>
     ELSE [i \in 1..notes |-> [type |-> "trigger", frame |-> time,
                               gate |-> at.length * StepTime[bpm], mono |-> track.mode = "mono"]]

RunTick == InTime /\ Tick /\ UNCHANGED <<track, soundVars, commands>>

PlayStep ==
  /\ Step
  /\ port' = port \o Triggers(internals.currentStep, NextStepTime)
  /\ UNCHANGED <<track, kernel, rendered, commands>>

FinishTick == EndTick /\ UNCHANGED <<track, soundVars, commands>>

-----------------------------------------------------------------------------
(* The audio thread *)

\* onmessage of the worklets, between two blocks.
Deliver ==
  /\ port # <<>>
  /\ LET msg == Head(port)
     IN kernel' = IF msg.type = "trigger" THEN [kernel EXCEPT !.events = Queued(@, msg)]
                  ELSE IF IsSynth THEN [kernel EXCEPT !.loop = msg.loop]
                  ELSE [kernel EXCEPT !.knobs = msg.knobs]
  /\ port' = Tail(port)
  /\ UNCHANGED <<seqVars, track, rendered, commands>>

\* Whatever was handed out falls before this; later the clock need not be counted.
Horizon == MaxTime + LookAhead + BlockSize

Quiet ==
  /\ kernel.events = <<>>
  /\ IF IsSynth THEN \A v \in Voice : ~Sounding(kernel.voices[v]) ELSE ~kernel.active

Block ==
  /\ InTime \/ ~Quiet
  /\ IF now < Horizon THEN Advance ELSE UNCHANGED seqVars
  /\ LET done == IF IsSynth THEN SynthProcessed(kernel, BlockSize, now)
                 ELSE DrumProcessed(track.engine, kernel, BlockSize, now)
     IN kernel' = done.k /\ rendered' = done.work
  /\ UNCHANGED <<track, port, commands>>

NextPlayback ==
  \/ Play \/ Pause \/ EditTempo \/ EditGrid \/ EditLoop \/ EditKnobs
  \/ RunTick \/ PlayStep \/ FinishTick
  \/ Deliver \/ Block

\* The audio thread goes on; timers and users owe nothing.
PlaybackSpec ==
  /\ InitPlayback /\ [][NextPlayback]_playVars
  /\ WF_playVars(Deliver \/ Block)
-----------------------------------------------------------------------------
(* Properties *)

\* The steps of a block are rendered once each, no stretch of it twice or not at all: the
\* kernels trust that hits reach them in time order (header of Synth2Kernel), which has to
\* hold across late ticks, restarts and changes of tempo.
BlockRenderedOnce == rendered = BlockSize

\* No voice is cut off: its level moves by at most a unit a frame, also when it is stolen,
\* retriggered, or told to loop in the middle of a note (Voice.noteOn's steal ramp).  The level is
\* the envelope's: the velocity it is multiplied by changes with noteOn (Voice.ts:163) at once.
NoClick ==
  [][IsSynth => \A v \in Voice :
       LET before == kernel.voices[v].level
           after  == kernel'.voices[v].level
       IN before - after <= BlockSize /\ after - before <= BlockSize]_playVars

\* The notes of a chord land on different voices, whatever sounds and whatever mono notes
\* were played before (pickVoice: free first, then the oldest).
ChordSpreads ==
  LET hit == [frame |-> now, gate |-> 1, mono |-> FALSE]
  IN IsSynth => PickVoice(SynthStruck(kernel, hit)) # PickVoice(kernel)

\* Once playback stops every note ends, one whose envelope loops too (LoopEnvelope's gate
\* runs in every stage), and so do the drums.
NotesEnd == ~isPlaying ~> (Quiet \/ isPlaying)
=============================================================================
