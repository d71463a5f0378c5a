------------------------- MODULE DynamicQueueLimits -------------------------
(***************************************************************************)
(* The byte limit of dynamic-queue-limits.cc: how many bytes a device may  *)
(* hold, adapted at every completion.  A state of the object is a record;  *)
(* its operations are functions and, where the code's subtraction may      *)
(* overflow, sets of outcomes.  All counters are uint32_t: they wrap at    *)
(* Word.                                                                   *)
(***************************************************************************)
EXTENDS Integers

CONSTANTS Word,          \* 2^32
          MaxObject,     \* DQL_MAX_OBJECT
          MinLimit, MaxLimit     \* the attributes

Uint32 == 0..(Word - 1)
UINTMAX == Word - 1

ASSUME LimitsAssumption ==
  /\ Word \in Nat \ {0} /\ Word % 2 = 0
  /\ MinLimit \in 0..(Word - 1)
  /\ MaxObject \in Uint32
  /\ MaxLimit \in 0..(UINTMAX \div 2 - MaxObject)

Unsigned(x) == x % Word
Signed(x)   == IF x >= Word \div 2 THEN x - Word ELSE x

Larger(a, b)  == IF a >= b THEN a ELSE b
Smaller(a, b) == IF a <= b THEN a ELSE b

(* The object.  Of m_slackStartTime only this matters: whether more than   *)
(* the hold time has passed since.                                         *)
Limits == [m_numQueued : Uint32, m_numCompleted : Uint32,
           m_adjLimit : Uint32, m_limit : Uint32,
           m_lastObjCnt : Uint32, m_prevLastObjCnt : Uint32,
           m_prevNumQueued : Uint32, m_prevOvlimit : Uint32,
           m_lowestSlack : Uint32, held : BOOLEAN]

ResetKeepingCompleted(l) ==                     \* variant: one field forgotten
  [m_numQueued |-> 0, m_numCompleted |-> l.m_numCompleted,
   m_adjLimit |-> l.m_adjLimit, m_limit |-> 0,
   m_lastObjCnt |-> 0, m_prevLastObjCnt |-> 0,
   m_prevNumQueued |-> 0, m_prevOvlimit |-> 0,
   m_lowestSlack |-> UINTMAX, held |-> FALSE]

(* Every field but m_adjLimit. *)
Reset(l) == [m_numQueued |-> 0, m_numCompleted |-> 0,
             m_adjLimit |-> l.m_adjLimit, m_limit |-> 0,
             m_lastObjCnt |-> 0, m_prevLastObjCnt |-> 0,
             m_prevNumQueued |-> 0, m_prevOvlimit |-> 0,
             m_lowestSlack |-> UINTMAX, held |-> FALSE]

(* The constructor calls Reset and leaves m_adjLimit uninitialized. *)
NewLimits ==
  {Reset([m_adjLimit |-> garbage, m_numCompleted |-> 0]) : garbage \in Uint32}

Queued(l, count) ==
  [l EXCEPT !.m_lastObjCnt = count, !.m_numQueued = Unsigned(@ + count)]

Available(l) == Signed(Unsigned(l.m_adjLimit - l.m_numQueued))

InProgress(l) == Unsigned(l.m_numQueued - l.m_numCompleted)

(* std::max ((a - b), 0) on int32_t.  If a - b overflows the result is     *)
(* undefined: the build wraps and then compares, or compares a with b.     *)
Posdiff(a, b) ==
  LET wrapped == Signed(Unsigned(a - b))
  IN  {Larger(wrapped, 0),
       IF Signed(a) > Signed(b) THEN Unsigned(wrapped) ELSE 0}

PosdiffOf(a, b) == Larger(Signed(a) - Signed(b), 0)     \* cannot overflow

AdjustedWide(limit, completed) == limit + completed    \* variant: no wrap
Adjusted(limit, completed) == Unsigned(limit + completed)

WithinBoundsFree(limit) == limit                \* variant: no maximum
WithinBounds(limit) == Smaller(Larger(limit, MinLimit), MaxLimit)

(* What Completed (count) may make of the object. *)
Completed(l, count) ==
  LET completed   == Unsigned(l.m_numCompleted + count)
      ovlimit     == PosdiffOf(InProgress(l), l.m_limit)
      inprogress  == Unsigned(l.m_numQueued - completed)
      prevInprogress   == Unsigned(l.m_prevNumQueued - l.m_numCompleted)
      allPrevCompleted == Signed(Unsigned(completed - l.m_prevNumQueued)) >= 0
      starved == \/ ovlimit # 0 /\ inprogress = 0
                 \/ l.m_prevOvlimit # 0 /\ allPrevCompleted
      busy    == inprogress # 0 /\ prevInprogress # 0 /\ ~allPrevCompleted
      slackLastObjs == IF l.m_prevOvlimit = 0 THEN 0
                       ELSE PosdiffOf(l.m_prevLastObjCnt, l.m_prevOvlimit)
      slack   == Larger(PosdiffOf(Unsigned(l.m_limit + l.m_prevOvlimit),
                                  Unsigned(2 * count)),
                        slackLastObjs)
      lowest  == Smaller(l.m_lowestSlack, slack)
      limits  == IF starved
                 THEN {Unsigned(l.m_limit + more + l.m_prevOvlimit) :
                         more \in Posdiff(completed, l.m_prevNumQueued)}
                 ELSE IF busy /\ l.held
                 THEN {PosdiffOf(l.m_limit, lowest)}
                 ELSE {l.m_limit}
      restart == starved \/ (busy /\ l.held)
  IN  {[l EXCEPT
          !.m_limit = limit,
          !.m_adjLimit = Adjusted(limit, completed),
          !.m_prevOvlimit = IF limit = l.m_limit THEN ovlimit ELSE 0,
          !.m_prevLastObjCnt = l.m_lastObjCnt,
          !.m_numCompleted = completed,
          !.m_prevNumQueued = l.m_numQueued,
          !.m_lowestSlack = IF restart THEN UINTMAX
                            ELSE IF busy THEN lowest ELSE @,
          !.held = IF restart THEN FALSE ELSE @] :
        limit \in {WithinBounds(x) : x \in limits}}
=============================================================================
