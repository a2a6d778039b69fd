---------------------------- MODULE ModeSessions ----------------------------
(***************************************************************************)
(* A session in one of the modes, followed by the projection of that mode. *)
(* What feeds it is either obedient or anything at all.  An obedient       *)
(* session carries what a conforming runtime accepts after the envelopes   *)
(* already applied: what its peers send, and what this process sends       *)
(* through the session's helpers, sync or async.  Each mode's session is   *)
(* an instance; the properties of the instances are collected here, each   *)
(* over the sessions of its mode.                                          *)
(***************************************************************************)
EXTENDS SessionBuilders

CONSTANTS
    Peers,             \* for each mode: envelopes of peers in an obedient session
    Calls,             \* for each mode: calls of this process's helpers
    Starts,            \* for each mode: arguments of start
    Anything,          \* for each mode: envelopes of a feed that obeys nothing
    PeersLength,       \* bounds on the transcript of either kind of session
    AnyLength,
    NoId,              \* the empty message_id
    Initiator,         \* the initiator of a Task or multi-round session
    Policies,          \* thresholds a Quorum policy may bind
    CountMax           \* the runtime's ceiling of a threshold count

Modes == {"decision", "quorum", "task", "handoff", "proposal", "multi_round"}

ASSUME ModeAssumption ==
    /\ Modes = DOMAIN Peers /\ Modes = DOMAIN Calls /\ Modes = DOMAIN Starts /\ Modes = DOMAIN Anything
    /\ \A m \in Modes : PeersLength[m] \in Nat /\ AnyLength[m] \in Nat

VARIABLES
    obedient,          \* does the feed carry only what a conforming runtime accepts
    mode,              \* the session's mode
    roster,            \* the participants it was started with
    policy,            \* the threshold its policy binds (Quorum)
    proj               \* the projection of that mode

vars == <<obedient, mode, roster, policy, proj>>

Unbound == [type |-> "none", num |-> 0, den |-> 1]

\* The calls a session class of one flavour has a method for.
Callable(flavour, m) == {c \in Calls[m] : c.method \in DOMAIN MethodsOf(flavour, m) \cup {"commit"}}

\* Every envelope a session of mode m may meet, and the larger of its bounds.
Sent(m) == UNION {{Build(f, m, c) : c \in Callable(f, m)} : f \in Flavours}
Met(m) == Peers[m] \cup Anything[m] \cup Sent(m)
Bound(m) == IF PeersLength[m] > AnyLength[m] THEN PeersLength[m] ELSE AnyLength[m]

Decision == INSTANCE DecisionSession
    WITH Envelopes <- Met("decision"), MaxLength <- Bound("decision")
Quorum == INSTANCE QuorumSession
    WITH Envelopes <- Met("quorum"), MaxLength <- Bound("quorum")
Task == INSTANCE TaskSession
    WITH Envelopes <- Met("task"), MaxLength <- Bound("task")
Handoff == INSTANCE HandoffSession
    WITH Envelopes <- Met("handoff"), MaxLength <- Bound("handoff")
Proposal == INSTANCE ProposalSession
    WITH Envelopes <- Met("proposal"), MaxLength <- Bound("proposal")
MultiRound == INSTANCE MultiRoundSession
    WITH Envelopes <- Met("multi_round"), MaxLength <- Bound("multi_round")

\* Participants are a list of names, thresholds rationals, the ceiling a count.
ASSUME StartsAssumption == \A m \in Modes : \A s \in Starts[m] : s.participants \in Seq(STRING)
ASSUME PolicyAssumption ==
    /\ CountMax \in Nat \ {0}
    /\ \A p \in Policies : p.num \in Int /\ p.den \in Nat \ {0}

\* Nobody who accepts a task is called as what stands for nobody.
ASSUME NamesAssumption ==
    \A e \in Met("task") : e.type = "TaskAccept" => Task!Unassigned \notin {e.sender, e.value}

\* The participant's projection is the one registered for its mode; the session was
\* started with arguments its helper let through.
Init ==
    /\ obedient \in BOOLEAN /\ mode \in Modes
    /\ roster \in {s.participants : s \in {r \in Starts[mode] : ~StartRefused(mode, r)}}
    /\ policy \in IF mode = "quorum" /\ obedient THEN Policies ELSE {Unbound}
    /\ mode = "decision" => Decision!Init
    /\ mode = "quorum" => Quorum!Init
    /\ mode = "task" => Task!Init
    /\ mode = "handoff" => Handoff!Init
    /\ mode = "proposal" => Proposal!Init
    /\ mode = "multi_round" => MultiRound!Init

\* apply_envelope is called with an envelope of the feed.
Takes(e) ==
    /\ Len(proj.transcript) < IF obedient THEN PeersLength[mode] ELSE AnyLength[mode]
    /\ \/ mode = "decision" /\ (obedient => Decision!Conforming(proj.transcript, e)) /\ Decision!Receive(e)
       \/ mode = "quorum" /\ (obedient => Quorum!Conforming(proj.transcript, e)) /\ Quorum!Receive(e)
       \/ mode = "task" /\ (obedient => Task!Conforming(proj.transcript, e)) /\ Task!Receive(e)
       \/ mode = "handoff" /\ (obedient => Handoff!Conforming(proj.transcript, e)) /\ Handoff!Receive(e)
       \/ mode = "proposal" /\ (obedient => Proposal!Conforming(proj.transcript, e)) /\ Proposal!Receive(e)
       \/ mode = "multi_round" /\ (obedient => MultiRound!Conforming(proj.transcript, e)) /\ MultiRound!Receive(e)

\* A peer's envelope, or one of a feed that obeys nothing.
Message ==
    /\ \E e \in IF obedient THEN Peers[mode] ELSE Anything[mode] : Takes(e)
    /\ UNCHANGED <<obedient, mode, roster, policy>>

\* A helper's call, not refused, accepted, acked and tracked.
Call(flavour, c) ==
    /\ obedient /\ c \in Callable(flavour, mode)
    /\ ~Refused(flavour, mode, proj.view, c)
    /\ Takes(Build(flavour, mode, c))
    /\ UNCHANGED <<obedient, mode, roster, policy>>

Next == Message \/ \E flavour \in Flavours : \E c \in Calls[mode] : Call(flavour, c)

Spec == Init /\ [][Next]_vars

-----------------------------------------------------------------------------
\* Whatever it is fed, a projection's transcript holds envelopes of its mode that
\* parsed, and its dedup gate the ids of exactly those.
TypeOK ==
    /\ mode \in Modes /\ obedient \in BOOLEAN /\ policy \in Policies \cup {Unbound}
    /\ mode = "decision" => Decision!TypeOK
    /\ mode = "quorum" => Quorum!TypeOK
    /\ mode = "task" => Task!TypeOK
    /\ mode = "handoff" => Handoff!TypeOK
    /\ mode = "proposal" => Proposal!TypeOK
    /\ mode = "multi_round" => MultiRound!TypeOK

\* No vote, ballot or answer disappears silently: each one about something the
\* projection knew is counted or leaves an anomaly.
NothingSilent ==
    /\ mode = "decision" => Decision!VotesAccounted
    /\ mode = "quorum" => Quorum!BallotsAccounted
    /\ mode = "handoff" => Handoff!AnswersAccounted

\* The first word stands, whatever competes with it later: a vote, a ballot of any
\* type, a handoff's outcome, a convergence.
FirstWordStands ==
    /\ [][mode = "decision" => Decision!VoteKept]_vars
    /\ [][mode = "quorum" => Quorum!BallotKept]_vars
    /\ [][mode = "handoff" => Handoff!OutcomeKept]_vars
    /\ [][mode = "multi_round" => MultiRound!ConvergenceKept]_vars

\* Task: the session's one slot and the tasks' assignees are two views of one fact,
\* whatever order the feed has; the slot never passes from one participant to another
\* directly, and only its holder, or a new request for the held task, gives it up
\* (RFC-MACP-0009 5.3).
SlotIsAssignment ==
    /\ [](mode = "task" => Task!SlotIsAssignment)
    /\ [][mode = "task" => Task!ReleasedByHolder]_vars

\* Proposal: accepted_proposal names the proposal that the last accept of everyone who
\* accepted names, and nothing else (RFC-MACP-0008 5.5, docs/modes/proposal.md).
AcceptedIsLatest == mode = "proposal" => Proposal!AcceptedIsLatest

\* Proposal: the phase is TerminalRejected exactly from the first terminal Reject of a
\* proposal already seen until the commitment: a participant is not torn down by a
\* Reject of something it never saw, nor revived.
TerminalIsSeen == mode = "proposal" => Proposal!TerminalIsSeen

-----------------------------------------------------------------------------
\* Quorum: never is both a positive and a negative commitment eligible, and one of
\* them is once all ballots are in, under any policy (has_quorum,
\* is_threshold_unreachable); a verdict is final, and the bar of a percentage is the
\* least positive count that is at least that share (effective_quorum_threshold).
VerdictDecides ==
    /\ [](obedient /\ mode = "quorum" => Quorum!VerdictDecides /\ Quorum!BarIsLeast)
    /\ [][obedient /\ mode = "quorum" => Quorum!VerdictKept]_vars

\* What a projection tells its coordinator is what the runtime would say on the same
\* history.  Task: who can accept, and no negative commitment while somebody works or
\* might accept.  Handoff: who can be offered to, and a terminal phase exactly when no
\* offer is pending.  Decision: the phase.  Multi-round: the convergence and the round,
\* and a participant that joined late reports no convergence the session has not reached.
AdviceAgrees ==
    obedient =>
        /\ mode = "task" => Task!CanAcceptAgrees /\ Task!NegativeOnlyWhenStuck
        /\ mode = "handoff" => Handoff!CanOfferAgrees /\ Handoff!PhaseTellsOutcome
        /\ mode = "decision" => Decision!PhaseAgrees
        /\ mode = "multi_round" => MultiRound!ConvergenceAgrees /\ MultiRound!JoinerNeverAhead

\* A helper refuses what the runtime would refuse and nothing else, as far as its
\* projection tells: a contribution, a commitment by another than the initiator, and, in
\* Decision, a value of any spelling.
Own(c) == ~SenderRefused(c)
BuildersAgree ==
    obedient /\ proj.transcript # <<>> /\ proj.view.phase # "Committed" =>
        /\ mode = "multi_round" => \A c \in Calls[mode] : Own(c) =>
                /\ c.method = "contribute" =>
                    (ContributeRefused(proj.view, c)
                        <=> ~MultiRound!MayContribute(proj.transcript, SenderOf(c), c.value))
                /\ c.method = "commit" /\ SenderOf(c) # Initiator => CommitRefused(mode, proj.view, c)
        /\ mode = "decision" => \A f \in Flavours : \A c \in Calls[mode] :
                Own(c) /\ c.method # "commit" =>
                    (Refused(f, mode, proj.view, c) <=> ~c.sound)
                    /\ (c.sound => Decision!WellFormed(Build(f, mode, c)))

\* What a call says through a helper, sync or async, and in whose name, is what a
\* coordinator reads in the projection once the runtime accepted it; the outcome of a
\* commitment is the one its action's suffix tells unless the caller states another.
Answered(c) ==
    LET v == proj'.view
        last == proj'.transcript[Len(proj'.transcript)]
    IN  /\ last.sender = c.who
        /\ c.method = "commit" => v.phase = "Committed" /\ last.flag = c.means
        /\ c.method # "commit" =>
            CASE mode = "decision" -> Decision!Shows(c, v)
              [] mode = "quorum" -> Quorum!Shows(c, v)
              [] mode = "task" -> Task!Shows(c, v)
              [] mode = "handoff" -> Handoff!Shows(c, v)
              [] mode = "proposal" -> Proposal!Shows(c, v)
              [] mode = "multi_round" -> MultiRound!Shows(c, v)
CallsTake ==
    [][\A c \in Calls[mode] :
            obedient /\ proj' # proj /\ proj'.transcript[Len(proj'.transcript)].id = c.id => Answered(c)]_vars

-----------------------------------------------------------------------------
\* How an instance annotates its calls: sound and means, of which the two properties
\* above speak.  The theorems about them assume it, and TLC evaluates it.
\* A Decision call is sound when it says something a runtime reads: what it must name is
\* there, its confidence is one, and the value sent is in the runtime's own table.
Meaningful(f, c) ==
    /\ \A field \in ActionOf(f, "decision", c).required : ~Blank(c[field])
    /\ c.method = "evaluate" => ConfidenceIn(c.extra)
    /\ Decision!WellFormed(Build(f, "decision", c))
SoundIsMeaningful ==
    \A c \in Calls["decision"] :
        /\ c.method \in {"propose", "evaluate", "raise_objection", "vote", "commit"}
        /\ c.method # "commit" => \A f \in Flavours : c.sound <=> Meaningful(f, c)

\* A multi-round contribution has a sender and a payload that decodes.
ContributionsTell ==
    \A c \in Calls["multi_round"] : SenderOf(c) # "" /\ c.value # MultiRound!Undecodable

\* What a caller means: the vote, recommendation or severity in the runtime's spelling,
\* the ballot its method names, itself when no participant is named, the outcome it
\* states or else the one its action tells, and otherwise the value it gives.
MeaningOf(m, c) ==
    CASE c.method \in {"vote", "evaluate"} -> Upper(c.value)
      [] c.method = "raise_objection" -> Lower(c.value)
      [] m = "quorum" /\ c.method \in {"approve", "reject", "abstain"} -> c.method
      [] c.method \in {"accept_task", "reject_task", "complete_task", "complete", "fail_task", "fail",
                       "accept_handoff", "decline"} -> IF c.value = "" THEN c.who ELSE c.value
      [] m = "proposal" /\ c.method = "propose" -> ""
      [] c.method = "commit" -> c.extra = "true" \/ (c.extra = "unset" /\ Lower(c.value) \notin Negative)
      [] OTHER -> c.value

\* A call is made in the name its credentials resolve to and declines nothing in
\* another's; no other message has its id.
CallsMean ==
    \A m \in Modes : \A c \in Calls[m] :
        /\ c.flag \in BOOLEAN
        /\ Own(c) => c.who = SenderOf(c) /\ c.means = MeaningOf(m, c)
        /\ c.method = "decline" => c.value \in {"", c.who}
        /\ \A e \in Peers[m] : e.id # c.id
        /\ \A d \in Calls[m] : d.id = c.id => d = c

\* Task: everybody speaks of the session's one task, and declines in its own name.
OneTask ==
    LET words == {e \in Peers["task"] \cup Sent("task") : e.type # "Commitment"}
    IN  /\ \A d, e \in words : d.subject = e.subject
        /\ \A e \in words : e.type = "TaskReject" => e.value \in {"", e.sender}
=============================================================================
