------------------------- MODULE MultiRoundSession -------------------------
(***************************************************************************)
(* A multi-round session as a projection that joined at its start follows  *)
(* it, and the local refusals of the session helper fed by it.             *)
(***************************************************************************)
EXTENDS MultiRoundProjection

CONSTANTS
    NoId,              \* the empty message_id
    Envelopes,         \* the envelopes of the instance
    Initiator,
    MaxLength          \* bound on the transcript

VARIABLES
    proj,
    roster             \* the participants declared at SessionStart, as a list

Roster == {roster[i] : i \in DOMAIN roster}
MultiRoundMode == "multi_round"

INSTANCE EnvelopeFeed
    WITH Mode <- MultiRoundMode, ParsedTypes <- MultiRoundParsed, ModeStep <- MultiRoundStep, InitView <- MultiRoundInit

Contributions(t) == {i \in DOMAIN t : t[i].type = "Contribute" /\ t[i].value # Undecodable}
LatestOf(t, p) ==
    {t[i].value : i \in {j \in Contributions(t) : t[j].sender = p
        /\ \A k \in Contributions(t) : t[k].sender = p => k <= j}}

\* handle_contribute as docs/modes/multi-round.md states it, from the log alone.
Converged(t) == Roster # {} /\ \E x \in {t[i].value : i \in Contributions(t)} :
                                    \A p \in Roster : LatestOf(t, p) = {x}
MayContribute(t, p, x) == t # <<>> /\ p \in Roster /\ x \notin {"", Undecodable} /\ ~Converged(t)

\* A conforming runtime (external): the start once and first, contributions until
\* convergence, a commitment of the initiator after it.
Conforming(t, e) ==
    /\ e.ok /\ e.mode = MultiRoundMode
    /\ \A i \in DOMAIN t : t[i].type # "Commitment" /\ t[i].id # e.id
    /\ e.type = "SessionStart" <=> t = <<>>
    /\ e.type = "SessionStart" => e.value = Roster /\ e.sender = Initiator
    /\ e.type = "Contribute" => MayContribute(t, e.sender, e.value)
    /\ e.type = "Commitment" => Converged(t) /\ e.sender = Initiator

-----------------------------------------------------------------------------
Shows(call, v) == v.contributions[call.who] = call.means

\* On full history the advisory convergence and the round are the runtime's: the
\* round counts the contributions that changed their sender's value.
ConvergenceAgrees ==
    /\ view.converged <=> Converged(proj.transcript)
    /\ view.round = Cardinality({i \in Contributions(proj.transcript) :
            LatestOf(SubSeq(proj.transcript, 1, i - 1), proj.transcript[i].sender)
                # {proj.transcript[i].value}})

\* Once converged, the agreed value and the contributions are frozen, whatever the
\* feed carries (sticky convergence).
ConvergenceKept ==
    view.converged =>
        /\ proj'.view.converged /\ proj'.view.agreed = view.agreed
        /\ proj'.view.contributions = view.contributions
        /\ proj'.view.round = view.round

\* A participant joining mid-session, seeded with the roster, may miss a
\* convergence but never reports one the session has not reached, nor another
\* value.
JoinerNeverAhead ==
    \A k \in DOMAIN proj.transcript :
        LET joiner == Replay(Fresh(MultiRoundSeeded(Roster, Initiator)),
                             SubSeq(proj.transcript, k + 1, Len(proj.transcript))).view
        IN  joiner.converged => view.converged /\ joiner.agreed = view.agreed
=============================================================================
