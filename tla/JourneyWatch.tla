---------------------------- MODULE JourneyWatch ----------------------------
(***************************************************************************)
(* What a user is promised, without queues, tables or processes: he is     *)
(* watched on the lines of the journey he was last given. A disruption     *)
(* takes the watch away, and only a new journey ends the rerouting that    *)
(* follows. A failure may leave him unwatched; only when news of him come  *)
(* in the wrong order is he watched on other lines than those of his       *)
(* journey, until his next one.                                            *)
(***************************************************************************)
EXTENDS TLAPS

CONSTANTS
  Users,
  Entries,     \* sets of lines, and NoEntry
  NoEntry      \* no journey, or no watch

VARIABLES
  plan,        \* [Users -> Entries]: the journey each user was last given
  watch,       \* [Users -> Entries]: the lines he is watched on
  rerouting,   \* users who are owed a new journey
  excused,     \* users with a failed, cut or overlapped update
  strayed      \* users of whom older news came after newer ones

vars == <<plan, watch, rerouting, excused, strayed>>

Init ==
  /\ plan = [u \in Users |-> NoEntry]
  /\ watch = [u \in Users |-> NoEntry]
  /\ rerouting = {}
  /\ excused = {} /\ strayed = {}

\* A journey is given, or ended (NoEntry), and the watch follows, wherever it was.
Announce(u, e) ==
  /\ plan' = [plan EXCEPT ![u] = e]
  /\ watch' = [watch EXCEPT ![u] = e]
  /\ excused' \in {excused \cup {u}, excused \ {u}}
  /\ strayed' = strayed \ {u}
  /\ UNCHANGED rerouting

\* A critical delay on his lines: the watch goes now, or later.
Disrupt(u) ==
  /\ rerouting' = rerouting \cup {u}
  /\ watch' \in {watch, [watch EXCEPT ![u] = NoEntry]}
  /\ UNCHANGED <<plan, excused, strayed>>

Lapse(u) ==
  /\ u \in rerouting \cup excused
  /\ watch' = [watch EXCEPT ![u] = NoEntry]
  /\ UNCHANGED <<plan, rerouting, excused, strayed>>

\* The rerouting is over: the watch is on the lines of the new journey.
Settle(u) ==
  /\ u \in rerouting /\ (watch[u] = plan[u] \/ u \in strayed)
  /\ rerouting' = rerouting \ {u}
  /\ UNCHANGED <<plan, watch, excused, strayed>>

\* Updates fail: reroutings of those concerned may end without a new journey.
Fail(S) ==
  /\ excused' = excused \cup S
  /\ rerouting' \subseteq rerouting /\ rerouting \ rerouting' \subseteq S
  /\ UNCHANGED <<plan, watch, strayed>>

\* A later update makes up for a failed one.
Recover(u) ==
  /\ watch[u] = plan[u] \/ u \in rerouting \cup strayed
  /\ excused' = excused \ {u}
  /\ UNCHANGED <<plan, watch, rerouting, strayed>>

\* Older news of u take the place of newer ones: his watch may be on any lines.
Stray(u, e) ==
  /\ strayed' = strayed \cup {u}
  /\ watch' = [watch EXCEPT ![u] = e]
  /\ UNCHANGED <<plan, rerouting, excused>>

Next ==
  \/ \E u \in Users : \/ \E e \in Entries : Announce(u, e) \/ Stray(u, e)
                      \/ Disrupt(u) \/ Lapse(u) \/ Settle(u) \/ Recover(u)
  \/ \E S \in SUBSET Users : Fail(S)

Spec == Init /\ [][Next]_vars

-----------------------------------------------------------------------------
TypeOK ==
  /\ plan \in [Users -> Entries] /\ watch \in [Users -> Entries]
  /\ rerouting \subseteq Users /\ excused \subseteq Users /\ strayed \subseteq Users

\* A watch is on the lines of the journey, and who is not watched is being rerouted,
\* unless an update of his failed or his news came in the wrong order.
NeverWrong ==
  \A u \in Users \ strayed :
    /\ watch[u] \in {plan[u], NoEntry}
    /\ watch[u] # plan[u] => u \in rerouting \cup excused

\* Whatever happens to the users, a watch is never on other lines than those of the
\* journey, and never lost without a rerouting or a failed update, as long as the news
\* come in order: and a new journey sets right what older news undid.
THEOREM JourneyNeverWrong ==
  ASSUME NoEntry \in Entries
  PROVE  Spec => [](TypeOK /\ NeverWrong)
  <1>1. Init => TypeOK /\ NeverWrong
    BY DEF Init, TypeOK, NeverWrong
  <1>2. TypeOK /\ NeverWrong /\ [Next]_vars => TypeOK' /\ NeverWrong'
    <2>. SUFFICES ASSUME TypeOK, NeverWrong, [Next]_vars PROVE TypeOK' /\ NeverWrong'
      OBVIOUS
    <2>. USE DEF TypeOK, NeverWrong
    <2>1. ASSUME NEW u \in Users, NEW e \in Entries, Announce(u, e) \/ Stray(u, e)
          PROVE  TypeOK' /\ NeverWrong'
      BY <2>1 DEF Announce, Stray
    <2>2. ASSUME NEW u \in Users, Disrupt(u) \/ Lapse(u) \/ Settle(u) \/ Recover(u)
          PROVE  TypeOK' /\ NeverWrong'
      BY <2>2 DEF Disrupt, Lapse, Settle, Recover
    <2>3. ASSUME NEW S \in SUBSET Users, Fail(S)
          PROVE  TypeOK' /\ NeverWrong'
      BY <2>3 DEF Fail
    <2>4. CASE UNCHANGED vars
      BY <2>4 DEF vars
    <2>. QED
      BY <2>1, <2>2, <2>3, <2>4 DEF Next
  <1>. QED
    BY <1>1, <1>2, PTL DEF Spec
=============================================================================
