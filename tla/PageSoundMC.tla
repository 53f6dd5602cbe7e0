----------------------------- MODULE PageSoundMC -----------------------------
(* The page's sound for TLC: a pattern being played, and the graph it is    *)
(* played on.  The two modules share no variable, so a behaviour explores   *)
(* one of them while the other rests: their states add up and need not be   *)
(* multiplied.                                                              *)
EXTENDS Playback, AudioEngine

VARIABLE part

\* The constants of Playback.
MCStepTime == [t \in Tempo |-> IF t = 90 THEN 5 ELSE 3]
MCVoice == 0..1
MCDefaultSteps == <<[note |-> TRUE, length |-> 1], [note |-> TRUE, length |-> 2]>>
MCPatterns ==
  { MCDefaultSteps,
    <<[note |-> FALSE, length |-> 1], [note |-> TRUE, length |-> 3], [note |-> TRUE, length |-> 1]>> }
MCDefaultKnobs == [decay |-> 1, noise |-> 3, bursts |-> 2, spread |-> 2]
MCKnobs == {MCDefaultKnobs, [decay |-> 4, noise |-> 1, bursts |-> 3, spread |-> 1]}

\* The constants of AudioEngine.
MCSyncedTime == [b \in Bpm |-> b]
MCTrack(on, type, sync) ==
  [enabled |-> on, engineType |-> type, muted |-> FALSE, soloed |-> FALSE,
   engines |-> [t \in EngineType |-> [timed |-> [sync |-> sync, time |-> 1], level |-> 1]]]
MCFirst == [bpm |-> 90, tracks |-> <<MCTrack(TRUE, "synth2", FALSE), MCTrack(FALSE, "kick2", FALSE)>>]
MCOther == [bpm |-> 90, tracks |-> <<MCTrack(TRUE, "kick2", FALSE), MCTrack(TRUE, "synth2", TRUE)>>]
MCProject == {MCFirst, MCOther}

PageInit ==
  /\ InitPlayback /\ InitAudio
  /\ part \in {"playback", "graph"}
  /\ part = "playback" => project = MCFirst
  /\ part = "graph" => IsSynth /\ bpm = 90

PageNext ==
  \/ part = "playback" /\ NextPlayback /\ UNCHANGED <<audioVars, part>>
  \/ part = "graph" /\ NextAudio /\ UNCHANGED <<playVars, part>>

AudioThread == part = "playback" /\ (Deliver \/ Block) /\ UNCHANGED <<audioVars, part>>

PageSpec == PageInit /\ [][PageNext]_<<playVars, audioVars, part>> /\ WF_playVars(AudioThread)
=============================================================================
