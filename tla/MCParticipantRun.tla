-------------------------- MODULE MCParticipantRun --------------------------
(* A session whose history ends the participant twice over: a Handoff is    *)
(* accepted, then committed.                                                *)
EXTENDS ParticipantRun

MCHistory == <<"plain", "terminal", "terminal">>
=============================================================================
