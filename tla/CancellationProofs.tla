------------------------- MODULE CancellationProofs -------------------------
(***************************************************************************)
(* Tokens, futures and the clock, for any number of tokens, threads and    *)
(* tasks.                                                                  *)
(***************************************************************************)
EXTENDS Cancellation, Totals, FiniteSetTheorems, TLAPS

-----------------------------------------------------------------------------
(* No wakeup is lost *)

\* The functions that are looked up.  What is on the stacks does not matter:
\* a thread can only wake too much.
Lookups ==
  /\ DOMAIN reason = Tokens
  /\ DOMAIN waiters = Tokens
  /\ DOMAIN at = Threads /\ DOMAIN current = Threads /\ DOMAIN taken = Threads
  /\ DOMAIN task = Tasks /\ DOMAIN awaits = Tasks
  /\ woken \in [Tasks -> BOOLEAN]

\* A token is awaited from its first poll on.
AwaitsToken == \A x \in Tasks : task[x] # "idle" => awaits[x] \in Tokens

\* Waiters taken from a list are woken before the next list.
TakenInWake == \A th \in Threads : at[th] # "wake" => taken[th] = {}

\* A registered future is in the list of its token until a thread takes it.
Registered(x) ==
  woken[x] \/ x \in waiters[awaits[x]] \/ \E th \in Threads : x \in taken[th]

StaysRegistered == \A x \in Tasks : task[x] \in {"rechecking", "suspended"} => Registered(x)

WakeInv == Lookups /\ AwaitsToken /\ TakenInWake /\ StaysRegistered /\ NoLostWakeup

LEMMA WakeInit == Init => WakeInv
<1>. SUFFICES ASSUME Init PROVE WakeInv
  OBVIOUS
<1>1. Lookups
  BY DEF Init, Lookups
<1>. QED  BY <1>1 DEF Init, WakeInv, AwaitsToken, TakenInWake, StaysRegistered, NoLostWakeup

\* The steps that look at no waiter: a thread elsewhere goes on, a handle is
\* dropped, the clock ticks.
Aside ==
  /\ UNCHANGED <<reason, waiters, taken, taskVars>>
  /\ DOMAIN at' = Threads /\ DOMAIN current' = Threads
  /\ \A th \in Threads :
       /\ at[th] = "take" => at'[th] = "take" /\ current'[th] = current[th]
       /\ at'[th] = "wake" <=> at[th] = "wake"

LEMMA AsideKeeps == WakeInv /\ Aside => WakeInv'
<1>. SUFFICES ASSUME WakeInv, Aside PROVE WakeInv'
  OBVIOUS
<1>. USE DEF WakeInv, Lookups, Aside, taskVars
<1>1. Lookups' /\ AwaitsToken' /\ TakenInWake'
  BY DEF AwaitsToken, TakenInWake
<1>2. StaysRegistered'
  BY DEF StaysRegistered, Registered
<1>3. NoLostWakeup'
  <2>. SUFFICES ASSUME NEW x \in Tasks, task[x] = "suspended", reason[awaits[x]] # "none", ~woken[x]
       PROVE  WakeUnderWay(x)'
    BY DEF NoLostWakeup
  <2>1. WakeUnderWay(x)
    BY DEF NoLostWakeup
  <2>. QED  BY <2>1 DEF WakeUnderWay
<1>. QED  BY <1>1, <1>2, <1>3

\* A step of a future: nobody else's waiter moves.
TaskOnly(x) ==
  /\ UNCHANGED <<reason, at, current, taken>>
  /\ DOMAIN waiters' = Tokens /\ DOMAIN task' = Tasks /\ DOMAIN awaits' = Tasks
  /\ woken' \in [Tasks -> BOOLEAN]
  /\ \A y \in Tasks \ {x} :
       /\ task'[y] = task[y] /\ awaits'[y] = awaits[y] /\ woken'[y] = woken[y]
       /\ \A t \in Tokens : y \in waiters[t] => y \in waiters'[t]

\* What is left to show of such a step, of the future itself.
LEMMA TaskOnlyKeeps ==
  ASSUME NEW x \in Tasks, WakeInv, TaskOnly(x),
         task'[x] # "idle" => awaits'[x] \in Tokens,
         task'[x] \in {"rechecking", "suspended"} => Registered(x)',
         task'[x] = "suspended" => reason'[awaits'[x]] = "none"
  PROVE  WakeInv'
<1>. USE DEF WakeInv, Lookups, TaskOnly
<1>1. Lookups' /\ TakenInWake'
  BY DEF TakenInWake
<1>2. AwaitsToken'
  BY DEF AwaitsToken
<1>3. StaysRegistered'
  <2>. SUFFICES ASSUME NEW y \in Tasks, y # x, task'[y] \in {"rechecking", "suspended"}
       PROVE  Registered(y)'
    BY DEF StaysRegistered
  <2>1. Registered(y) /\ awaits[y] \in Tokens
    BY DEF StaysRegistered, AwaitsToken
  <2>. QED  BY <2>1 DEF Registered
<1>4. NoLostWakeup'
  <2>. SUFFICES ASSUME NEW y \in Tasks, y # x, task'[y] = "suspended", reason'[awaits'[y]] # "none",
                       ~woken'[y]
       PROVE  WakeUnderWay(y)'
    BY DEF NoLostWakeup
  <2>1. WakeUnderWay(y) /\ awaits[y] \in Tokens
    BY DEF NoLostWakeup, AwaitsToken
  <2>. QED  BY <2>1 DEF WakeUnderWay
<1>. QED  BY <1>1, <1>2, <1>3, <1>4

-----------------------------------------------------------------------------

\* The tokens whose reason is set get a thread that takes their waiters.
LEMMA VisitKeeps == ASSUME NEW th \in Threads, WakeInv, Visit(th) PROVE WakeInv'
<1>. DEFINE top == pending[th][Len(pending[th])]
<1>. USE DEF WakeInv, Lookups
<1>1. CASE reason[top.token] # "none"
  <2>1. Aside
    BY <1>1 DEF Visit, Aside, taskVars
  <2>. QED  BY <2>1, AsideKeeps
<1>2. CASE reason[top.token] = "none"
  <2>1. /\ reason' = [reason EXCEPT ![top.token] = top.why]
        /\ current' = [current EXCEPT ![th] = top.token]
        /\ at' = [at EXCEPT ![th] = "take"]
        /\ at[th] = "visit" /\ UNCHANGED <<waiters, taken, task, awaits, woken>>
    BY <1>2 DEF Visit, Goto, taskVars
  <2>. HIDE DEF top
  <2>2. Lookups' /\ AwaitsToken' /\ TakenInWake' /\ StaysRegistered'
    BY <2>1 DEF AwaitsToken, TakenInWake, StaysRegistered, Registered
  <2>3. NoLostWakeup'
    <3>. SUFFICES ASSUME NEW x \in Tasks, task[x] = "suspended", reason'[awaits[x]] # "none", ~woken[x]
         PROVE  WakeUnderWay(x)'
      BY <2>1 DEF NoLostWakeup
    <3>1. CASE reason[awaits[x]] # "none"
      <4>1. WakeUnderWay(x)
        BY <3>1 DEF NoLostWakeup
      <4>. QED  BY <2>1, <4>1 DEF WakeUnderWay
    <3>2. CASE reason[awaits[x]] = "none"
      <4>1. awaits[x] = top.token
        BY <2>1, <3>2 DEF AwaitsToken
      <4>2. Registered(x)
        BY DEF StaysRegistered
      <4>. QED  BY <2>1, <4>1, <4>2 DEF Registered, WakeUnderWay
    <3>. QED  BY <3>1, <3>2
  <2>. QED  BY <2>2, <2>3
<1>. QED  BY <1>1, <1>2

LEMMA TakeKeeps == ASSUME NEW th \in Threads, WakeInv, TakeWaiters(th) PROVE WakeInv'
<1>. USE DEF WakeInv, Lookups
<1>1. /\ at[th] = "take" /\ at' = [at EXCEPT ![th] = "wake"]
      /\ taken' = [taken EXCEPT ![th] = waiters[current[th]]]
      /\ waiters' = [waiters EXCEPT ![current[th]] = {}]
      /\ UNCHANGED <<reason, current, task, awaits, woken>>
  BY DEF TakeWaiters, Goto, taskVars
<1>2. taken[th] = {}
  BY <1>1 DEF TakenInWake
<1>3. Lookups' /\ AwaitsToken' /\ TakenInWake'
  BY <1>1 DEF AwaitsToken, TakenInWake
\* A waiter is in its list or was taken.
<1>4. ASSUME NEW x \in Tasks, awaits[x] \in Tokens, x \in waiters[awaits[x]]
      PROVE  x \in waiters'[awaits[x]] \/ x \in taken'[th]
  BY <1>1, <1>4
<1>5. ASSUME NEW x \in Tasks, NEW other \in Threads, x \in taken[other]
      PROVE  x \in taken'[other]
  BY <1>1, <1>2, <1>5
<1>6. StaysRegistered'
  <2>. SUFFICES ASSUME NEW x \in Tasks, task[x] \in {"rechecking", "suspended"}
       PROVE  Registered(x)'
    BY <1>1 DEF StaysRegistered
  <2>1. Registered(x) /\ awaits[x] \in Tokens
    BY DEF StaysRegistered, AwaitsToken
  <2>. QED  BY <1>1, <1>4, <1>5, <2>1 DEF Registered
<1>7. NoLostWakeup'
  <2>. SUFFICES ASSUME NEW x \in Tasks, task[x] = "suspended", reason[awaits[x]] # "none", ~woken[x]
       PROVE  WakeUnderWay(x)'
    BY <1>1 DEF NoLostWakeup
  <2>1. WakeUnderWay(x) /\ awaits[x] \in Tokens
    BY DEF NoLostWakeup, AwaitsToken
  <2>2. CASE \E other \in Threads : x \in taken[other]
    BY <1>5, <2>2 DEF WakeUnderWay
  <2>3. CASE \E other \in Threads : at[other] = "take" /\ current[other] = awaits[x] /\ x \in waiters[awaits[x]]
    <3>1. PICK other \in Threads : at[other] = "take" /\ current[other] = awaits[x] /\ x \in waiters[awaits[x]]
      BY <2>3
    <3>2. CASE x \in taken'[th]
      BY <3>2 DEF WakeUnderWay
    <3>3. CASE x \in waiters'[awaits[x]]
      <4>1. current[th] # awaits[x]
        BY <1>1, <2>1, <3>3
      <4>. QED  BY <1>1, <3>1, <3>3, <4>1 DEF WakeUnderWay
    <3>. QED  BY <1>4, <2>1, <3>1, <3>2, <3>3
  <2>. QED  BY <2>1, <2>2, <2>3 DEF WakeUnderWay
<1>. QED  BY <1>3, <1>6, <1>7

LEMMA WakeKeeps == ASSUME NEW th \in Threads, WakeInv, Wake(th) PROVE WakeInv'
<1>. USE DEF WakeInv, Lookups
<1>1. at[th] = "wake" /\ UNCHANGED <<reason, waiters, current, task, awaits>>
  BY DEF Wake
<1>2. CASE taken[th] = {}
  <2>1. taken' = taken /\ woken' = woken /\ at' = [at EXCEPT ![th] = "spread"]
    BY <1>2 DEF Wake, Goto
  <2>. QED  BY <1>1, <1>2, <2>1
            DEF AwaitsToken, TakenInWake, StaysRegistered, Registered, NoLostWakeup, WakeUnderWay
<1>3. CASE taken[th] # {}
  <2>1. PICK y \in taken[th] :
          /\ taken' = [taken EXCEPT ![th] = @ \ {y}]
          /\ woken' = IF task[y] = "dropped" THEN woken ELSE [woken EXCEPT ![y] = TRUE]
          /\ at' = at
    BY <1>3 DEF Wake
  <2>2. Lookups' /\ AwaitsToken' /\ TakenInWake'
    BY <1>1, <2>1 DEF AwaitsToken, TakenInWake
  <2>3. ASSUME NEW x \in Tasks, task[x] # "dropped"
        PROVE  /\ woken[x] => woken'[x]
               /\ \A other \in Threads : x \in taken[other] => woken'[x] \/ x \in taken'[other]
    BY <2>1, <2>3
  <2>4. StaysRegistered'
    BY <1>1, <2>3 DEF StaysRegistered, Registered
  <2>5. NoLostWakeup'
    BY <1>1, <2>1, <2>3 DEF NoLostWakeup, WakeUnderWay
  <2>. QED  BY <2>2, <2>4, <2>5
<1>. QED  BY <1>2, <1>3

\* A future is polled, registered, looked at again and dropped.
LEMMA FutureKeeps ==
  ASSUME NEW x \in Tasks, WakeInv,
         \/ TaskStep(x) \/ PollAgain(x) \/ Abandon(x)
         \/ \E t \in Tokens : Await(x, t)
  PROVE  WakeInv'
<1>. USE DEF WakeInv, Lookups, Become, TaskOnly, threadVars
<1>1. CASE \E t \in Tokens : Await(x, t)
  <2>1. TaskOnly(x) /\ task'[x] = "polled" /\ awaits'[x] \in Tokens
    BY <1>1 DEF Await
  <2>. QED  BY <2>1, TaskOnlyKeeps
<1>2. CASE Poll(x)
  <2>1. TaskOnly(x) /\ task'[x] \in {"ready", "registering"} /\ awaits'[x] \in Tokens
    BY <1>2 DEF Poll, AwaitsToken
  <2>. QED  BY <2>1, TaskOnlyKeeps
<1>3. CASE Register(x)
  <2>1. awaits[x] \in Tokens
    BY <1>3 DEF Register, AwaitsToken
  <2>2. TaskOnly(x) /\ task'[x] = "rechecking" /\ awaits'[x] \in Tokens /\ x \in waiters'[awaits'[x]]
    BY <1>3, <2>1 DEF Register
  <2>. QED  BY <2>2, TaskOnlyKeeps DEF Registered
<1>4. CASE Recheck(x)
  <2>1. awaits[x] \in Tokens /\ Registered(x)
    BY <1>4 DEF Recheck, AwaitsToken, StaysRegistered
  <2>2. CASE Reason(awaits[x]) = "none"
    <3>1. reason[awaits[x]] = "none"
      BY <2>2 DEF Reason
    <3>2. TaskOnly(x) /\ awaits'[x] = awaits[x] /\ reason' = reason /\ Registered(x)'
      BY <1>4, <2>1, <2>2 DEF Recheck, Registered
    <3>. QED  BY <2>1, <3>1, <3>2, TaskOnlyKeeps
  <2>3. CASE Reason(awaits[x]) # "none"
    <3>1. TaskOnly(x) /\ task'[x] = "ready" /\ awaits'[x] = awaits[x]
      BY <1>4, <2>1, <2>3 DEF Recheck
    <3>. QED  BY <2>1, <3>1, TaskOnlyKeeps
  <2>. QED  BY <2>2, <2>3
<1>5. CASE PollAgain(x)
  <2>1. TaskOnly(x) /\ task'[x] = "polled" /\ awaits'[x] \in Tokens
    BY <1>5 DEF PollAgain, AwaitsToken
  <2>. QED  BY <2>1, TaskOnlyKeeps
<1>6. CASE Abandon(x)
  <2>1. TaskOnly(x) /\ task'[x] = "dropped" /\ awaits'[x] \in Tokens
    BY <1>6 DEF Abandon, AwaitsToken
  <2>. QED  BY <2>1, TaskOnlyKeeps
<1>. QED  BY <1>1, <1>2, <1>3, <1>4, <1>5, <1>6 DEF TaskStep

LEMMA WakeStep == WakeInv /\ [Next]_vars => WakeInv'
<1>. SUFFICES ASSUME WakeInv, [Next]_vars PROVE WakeInv'
  OBVIOUS
<1>1. ASSUME NEW th \in Threads, ThreadStep(th) PROVE WakeInv'
  <2>1. CASE Return(th) \/ Spread(th) \/ Adopt(th)
    <3>1. Aside
      BY <2>1 DEF WakeInv, Lookups, Return, Spread, Adopt, Goto, Aside, taskVars
    <3>. QED  BY <3>1, AsideKeeps
  <2>. QED  BY <1>1, <2>1, VisitKeeps, TakeKeeps, WakeKeeps DEF ThreadStep
<1>2. ASSUME NEW x \in Tasks, \/ TaskStep(x) \/ PollAgain(x) \/ Abandon(x)
                              \/ \E t \in Tokens : Await(x, t)
      PROVE  WakeInv'
  BY <1>2, FutureKeeps
<1>3. ASSUME NEW th \in Threads, NEW t \in Tokens,
             \/ \E why \in {"requested", "deadline"} : Cancel(th, t, why)
             \/ \E asked \in Deadlines : MakeChild(th, t, asked)
      PROVE  WakeInv'
  <2>1. Aside
    BY <1>3 DEF WakeInv, Lookups, Cancel, MakeChild, Goto, Aside, taskVars
  <2>. QED  BY <2>1, AsideKeeps
<1>4. CASE (\E t \in Tokens : DropHandle(t)) \/ Tick \/ Finished \/ UNCHANGED vars
  <2>1. Aside
    BY <1>4 DEF WakeInv, Lookups, DropHandle, Tick, Finished, Aside, vars, threadVars, taskVars
  <2>. QED  BY <2>1, AsideKeeps
<1>. QED  BY <1>1, <1>2, <1>3, <1>4 DEF Next

\* In every interleaving of cancellations, polls and registrations, a suspended
\* future of a cancelled token is woken or a thread is about to wake it
\* (cancel_tree, and the second look of Cancelled::poll).
THEOREM NoWakeupLost == Spec => []NoLostWakeup
<1>1. Init => WakeInv
  BY WakeInit
<1>2. WakeInv /\ [Next]_vars => WakeInv'
  BY WakeStep
<1>3. WakeInv => NoLostWakeup
  BY DEF WakeInv
<1>. QED  BY <1>1, <1>2, <1>3, PTL DEF Spec

-----------------------------------------------------------------------------
(* The first reason stays *)

\* Tokens are numbered in the order they are made; one not made yet has no
\* deadline, and the clock is never past the last one.
Numbered ==
  /\ now \in 0 .. Horizon
  /\ DOMAIN reason = Tokens
  /\ parent \in [Tokens -> Tokens \cup {NoToken}]
  /\ deadline \in [Tokens -> 0 .. Never]
  /\ \E n \in Nat : Created = 1 .. n
  /\ \A t \in Tokens \ Created : deadline[t] = Never

LEMMA NumberedInit == Init => Numbered
<1>. SUFFICES ASSUME Init PROVE Numbered
  OBVIOUS
<1>. USE CancellationAssumption
<1>1. Created = 1 .. 1
  BY DEF Init, Created, Tokens, NoToken
<1>2. deadline \in [Tokens -> 0 .. Never] /\ \A t \in Tokens \ {1} : deadline[t] = Never
  BY DEF Init, Never
<1>3. \E n \in Nat : Created = 1 .. n
  BY <1>1
<1>4. \A t \in Tokens \ Created : deadline[t] = Never
  BY <1>1, <1>2
<1>5. now \in 0 .. Horizon /\ DOMAIN reason = Tokens /\ parent \in [Tokens -> Tokens \cup {NoToken}]
  BY DEF Init
<1>. QED  BY <1>2, <1>3, <1>4, <1>5 DEF Numbered

\* The next child has the next number.
LEMMA MakeChildNumbers ==
  ASSUME Numbered, NEW th \in Threads, NEW t \in Tokens, NEW asked \in Deadlines,
         MakeChild(th, t, asked)
  PROVE  /\ Numbered'
         /\ Cardinality(Created) + 1 \in Tokens \ Created
         /\ Created' = Created \cup {Cardinality(Created) + 1}
         /\ \A x \in Tokens : deadline'[x] = deadline[x] \/ deadline[x] = Never
<1>. USE CancellationAssumption
<1>. DEFINE child == Cardinality(Created) + 1
<1>1. PICK n \in Nat : Created = 1 .. n
  BY DEF Numbered
<1>2. child = n + 1
  <2>1. Cardinality(1 .. n) = n
    BY FS_Interval
  <2>. QED  BY <1>1, <2>1
<1>3. child \in Tokens /\ t # NoToken
  BY DEF MakeChild, Tokens, NoToken
<1>4. parent' = [parent EXCEPT ![child] = t] /\ UNCHANGED <<now, reason>>
      /\ deadline' = [deadline EXCEPT ![child] = ChildDeadline(t, asked)]
  BY DEF MakeChild
<1>. HIDE DEF child
<1>5. child \notin Created
  BY <1>1, <1>2
<1>10. Created' = Created \cup {child}
  BY <1>3, <1>4 DEF Created, Numbered
<1>6. Created' = 1 .. n + 1
  BY <1>1, <1>2, <1>10
<1>7. ChildDeadline(t, asked) \in 0 .. Never
  BY DEF ChildDeadline, Lesser, Numbered
<1>8. Numbered'
  BY <1>1, <1>2, <1>3, <1>4, <1>6, <1>7 DEF Numbered
<1>9. \A x \in Tokens : deadline'[x] = deadline[x] \/ deadline[x] = Never
  BY <1>3, <1>4, <1>5 DEF Numbered
<1>. QED  BY <1>3, <1>5, <1>8, <1>9, <1>10 DEF child

\* Of one token: a stored reason is kept, and what it answers changes only
\* from the Deadline of its clock, when a reason is stored.
Stays(t) ==
  /\ reason[t] # "none" => reason'[t] = reason[t]
  /\ Reason(t) # "none" =>
       \/ Reason(t)' = Reason(t)
       \/ Reason(t) = "deadline" /\ reason[t] = "none" /\ reason'[t] # "none"

LEMMA NumberedStep ==
  Numbered /\ [Next]_vars => Numbered' /\ \A t \in Tokens : Stays(t)
<1>. SUFFICES ASSUME Numbered, [Next]_vars PROVE Numbered' /\ \A t \in Tokens : Stays(t)
  OBVIOUS
<1>. USE CancellationAssumption
\* All but the clock, the children and the reasons
<1>1. ASSUME UNCHANGED <<now, parent, deadline, reason>>
      PROVE  Numbered' /\ \A t \in Tokens : Stays(t)
  BY <1>1 DEF Numbered, Created, Stays, Reason
<1>2. ASSUME NEW th \in Threads, Visit(th)
      PROVE  Numbered' /\ \A t \in Tokens : Stays(t)
  <2>. DEFINE top == pending[th][Len(pending[th])]
  <2>1. UNCHANGED <<now, parent, deadline>>
    BY <1>2 DEF Visit, treeVars
  <2>2. \/ reason' = reason
        \/ reason[top.token] = "none" /\ reason' = [reason EXCEPT ![top.token] = top.why]
    BY <1>2 DEF Visit
  <2>. HIDE DEF top
  <2>3. Numbered'
    BY <2>1, <2>2 DEF Numbered, Created
  <2>4. ASSUME NEW t \in Tokens, reason[t] # "none" PROVE reason'[t] = reason[t]
    BY <2>2, <2>4 DEF Numbered
  <2>5. ASSUME NEW t \in Tokens PROVE Stays(t)
    BY <2>1, <2>4 DEF Stays, Reason
  <2>. QED  BY <2>3, <2>5
<1>3. ASSUME NEW th \in Threads, NEW t \in Tokens, NEW asked \in Deadlines, MakeChild(th, t, asked)
      PROVE  Numbered' /\ \A x \in Tokens : Stays(x)
  <2>1. Numbered' /\ \A x \in Tokens : deadline'[x] = deadline[x] \/ deadline[x] = Never
    BY <1>3, MakeChildNumbers
  <2>2. UNCHANGED <<now, reason>>
    BY <1>3 DEF MakeChild
  <2>3. now < Never
    BY DEF Numbered, Never
  <2>4. ASSUME NEW x \in Tokens PROVE Stays(x)
    BY <2>1, <2>2, <2>3 DEF Stays, Reason, Numbered, Never
  <2>. QED  BY <2>1, <2>4
<1>4. CASE Tick
  <2>1. now' = now + 1 /\ now' \in 0 .. Horizon /\ UNCHANGED <<parent, deadline, reason>>
    BY <1>4 DEF Tick, Numbered, treeVars
  <2>2. Numbered'
    BY <2>1 DEF Numbered, Created
  <2>3. ASSUME NEW t \in Tokens PROVE Stays(t)
    BY <2>1 DEF Stays, Reason, Numbered, Never
  <2>. QED  BY <2>2, <2>3
<1>5. CASE (\E t \in Tokens : DropHandle(t)) \/ Finished \/ UNCHANGED vars
  BY <1>1, <1>5 DEF DropHandle, Finished, vars, treeVars
<1>6. ASSUME NEW th \in Threads,
             \/ Return(th) \/ TakeWaiters(th) \/ Wake(th) \/ Spread(th) \/ Adopt(th)
             \/ \E t \in Tokens, why \in {"requested", "deadline"} : Cancel(th, t, why)
      PROVE  Numbered' /\ \A t \in Tokens : Stays(t)
  BY <1>1, <1>6 DEF Return, TakeWaiters, Wake, Spread, Adopt, Cancel, treeVars
<1>7. ASSUME NEW x \in Tasks,
             TaskStep(x) \/ PollAgain(x) \/ Abandon(x) \/ \E t \in Tokens : Await(x, t)
      PROVE  Numbered' /\ \A t \in Tokens : Stays(t)
  BY <1>1, <1>7 DEF TaskStep, Poll, Register, Recheck, PollAgain, Abandon, Await, treeVars
<1>. QED  BY <1>2, <1>3, <1>4, <1>5, <1>6, <1>7 DEF Next, ThreadStep

\* Whatever cancellations race and whatever deadlines pass, a token keeps the
\* first reason stored in it; before that an expired one answers Deadline, so
\* its answer changes at most once, and it never comes back to life.
THEOREM FirstReasonKept == Spec => FirstReasonStays
<1>1. Init => Numbered
  BY NumberedInit
<1>2. Numbered /\ [Next]_vars =>
        /\ Numbered'
        /\ \A t \in Tokens :
             /\ reason[t] # "none" => reason'[t] = reason[t]
             /\ Reason(t) # "none" =>
                  \/ Reason(t)' = Reason(t)
                  \/ Reason(t) = "deadline" /\ reason[t] = "none" /\ reason'[t] # "none"
  BY NumberedStep DEF Stays
<1>. QED  BY <1>1, <1>2, PTL DEF Spec, FirstReasonStays

-----------------------------------------------------------------------------
(* The children that are still there *)

\* The recursion of Present, with g in place of the function defined.
KeptFrom(list, g, n) ==
  [k \in 0 .. n |-> IF k = 0 THEN << >>
                    ELSE IF Reachable(list[k]) THEN Append(g[k - 1], list[k])
                    ELSE g[k - 1]]

Kept(list) ==
  LET kept[n \in 0 .. Len(list)] ==
        IF n = 0 THEN << >>
        ELSE IF Reachable(list[n]) THEN Append(kept[n - 1], list[n])
        ELSE kept[n - 1]
  IN  kept

LEMMA KeptExists ==
  ASSUME NEW list
  PROVE  \A n \in Nat : \E g : g = KeptFrom(list, g, n)
<1>. DEFINE T == {n \in Nat : \E g : g = KeptFrom(list, g, n)}
<1>1. 0 \in T
  <2>. DEFINE g0 == [k \in 0 .. 0 |-> << >>]
  <2>1. g0 = KeptFrom(list, g0, 0)
    BY DEF KeptFrom
  <2>. QED  BY <2>1
<1>2. ASSUME NEW n \in T PROVE n + 1 \in T
  <2>1. PICK g : g = KeptFrom(list, g, n)
    BY <1>2
  <2>. DEFINE next == IF Reachable(list[n + 1]) THEN Append(g[n], list[n + 1]) ELSE g[n]
              h == [k \in 0 .. n + 1 |-> IF k = n + 1 THEN next ELSE g[k]]
  <2>2. ASSUME NEW k \in 0 .. n + 1 PROVE h[k] = KeptFrom(list, h, n + 1)[k]
    <3>1. CASE k = n + 1
      <4>1. h[n] = g[n] /\ h[n + 1] = next
        OBVIOUS
      <4>2. KeptFrom(list, h, n + 1)[n + 1] =
              IF Reachable(list[n + 1]) THEN Append(h[n], list[n + 1]) ELSE h[n]
        <5>. HIDE DEF h
        <5>. QED  BY DEF KeptFrom
      <4>. QED  BY <3>1, <4>1, <4>2
    <3>2. CASE k \in 0 .. n
      <4>1. h[k] = g[k] /\ (k # 0 => h[k - 1] = g[k - 1])
        BY <3>2
      <4>. HIDE DEF h
      <4>2. g[k] = KeptFrom(list, h, n + 1)[k]
        BY <2>1, <3>2, <4>1 DEF KeptFrom
      <4>. QED  BY <4>1, <4>2
    <3>. QED  BY <3>1, <3>2
  <2>3. h = [k \in 0 .. n + 1 |-> h[k]]
    OBVIOUS
  <2>. HIDE DEF h
  <2>4. KeptFrom(list, h, n + 1) = [k \in 0 .. n + 1 |-> KeptFrom(list, h, n + 1)[k]]
    BY DEF KeptFrom
  <2>5. h = KeptFrom(list, h, n + 1)
    BY <2>2, <2>3, <2>4
  <2>. QED  BY <2>5
<1>. HIDE DEF T
<1>3. T = Nat
  BY <1>1, <1>2, SetInduction DEF T
<1>. QED  BY <1>3 DEF T

\* A list keeps the tokens that can be reached, and no others.
LEMMA PresentIs ==
  ASSUME NEW list \in Seq(Tokens)
  PROVE  /\ Present(list) \in Seq(Tokens)
         /\ \A i \in 1 .. Len(Present(list)) :
              \E j \in 1 .. Len(list) : Present(list)[i] = list[j] /\ Reachable(list[j])
         /\ \A j \in 1 .. Len(list) : Reachable(list[j]) =>
              \E i \in 1 .. Len(Present(list)) : Present(list)[i] = list[j]
<1>. DEFINE kept == Kept(list)
            n == Len(list)
<1>0. n \in Nat
  OBVIOUS
<1>1. kept = KeptFrom(list, kept, n)
  <2>1. PICK g : g = KeptFrom(list, g, n)
    BY <1>0, KeptExists
  <2>. QED  BY <2>1 DEF Kept, KeptFrom
<1>2. Present(list) = kept[n]
  BY DEF Present, Kept
<1>. HIDE DEF kept, n
<1>3. /\ kept[0] = << >>
      /\ \A k \in 1 .. n : kept[k] = IF Reachable(list[k]) THEN Append(kept[k - 1], list[k]) ELSE kept[k - 1]
  <2>. DEFINE value(k) == IF k = 0 THEN << >>
                          ELSE IF Reachable(list[k]) THEN Append(kept[k - 1], list[k])
                          ELSE kept[k - 1]
  <2>1. kept = [k \in 0 .. n |-> value(k)]
    BY <1>1 DEF KeptFrom
  <2>. HIDE DEF value
  <2>2. \A k \in 0 .. n : kept[k] = value(k)
    BY <2>1
  <2>. QED  BY <1>0, <2>2 DEF value
<1>. DEFINE Good(k) ==
              /\ kept[k] \in Seq(Tokens)
              /\ \A i \in 1 .. Len(kept[k]) : \E j \in 1 .. k : kept[k][i] = list[j] /\ Reachable(list[j])
              /\ \A j \in 1 .. k : Reachable(list[j]) => \E i \in 1 .. Len(kept[k]) : kept[k][i] = list[j]
            T == {k \in Nat : k <= n => Good(k)}
<1>4. 0 \in T
  <2>1. Len(kept[0]) = 0 /\ kept[0] \in Seq(Tokens)
    BY <1>3
  <2>. QED  BY <1>0, <2>1
<1>5. ASSUME NEW k \in T PROVE k + 1 \in T
  <2>1. SUFFICES ASSUME k + 1 <= n PROVE Good(k + 1)
    OBVIOUS
  <2>2. Good(k) /\ k \in Nat /\ k + 1 \in 1 .. n /\ list[k + 1] \in Tokens
    BY <1>0, <2>1 DEF n
  <2>. DEFINE old == kept[k]
              new == kept[k + 1]
  <2>3. new = IF Reachable(list[k + 1]) THEN Append(old, list[k + 1]) ELSE old
    BY <1>3, <2>2
  <2>4. /\ old \in Seq(Tokens)
        /\ \A i \in 1 .. Len(old) : \E j \in 1 .. k : old[i] = list[j] /\ Reachable(list[j])
        /\ \A j \in 1 .. k : Reachable(list[j]) => \E i \in 1 .. Len(old) : old[i] = list[j]
    BY <2>2
  <2>. HIDE DEF old, new
  <2>5. CASE Reachable(list[k + 1])
    <3>1. /\ new \in Seq(Tokens) /\ Len(old) \in Nat /\ Len(new) = Len(old) + 1
          /\ \A i \in 1 .. Len(old) : new[i] = old[i]
          /\ new[Len(old) + 1] = list[k + 1]
      BY <2>2, <2>3, <2>4, <2>5
    <3>2. ASSUME NEW i \in 1 .. Len(new)
          PROVE  \E j \in 1 .. k + 1 : new[i] = list[j] /\ Reachable(list[j])
      <4>1. CASE i \in 1 .. Len(old)
        <5>1. PICK j \in 1 .. k : old[i] = list[j] /\ Reachable(list[j])
          BY <2>4, <4>1
        <5>. QED  BY <2>2, <3>1, <4>1, <5>1
      <4>2. CASE i = Len(old) + 1
        BY <2>2, <2>5, <3>1, <4>2
      <4>. QED  BY <3>1, <4>1, <4>2
    <3>3. ASSUME NEW j \in 1 .. k + 1, Reachable(list[j])
          PROVE  \E i \in 1 .. Len(new) : new[i] = list[j]
      <4>1. CASE j = k + 1
        BY <3>1, <4>1
      <4>2. CASE j \in 1 .. k
        <5>1. PICK i \in 1 .. Len(old) : old[i] = list[j]
          BY <2>4, <3>3, <4>2
        <5>. QED  BY <3>1, <5>1
      <4>. QED  BY <2>2, <4>1, <4>2
    <3>. QED  BY <3>1, <3>2, <3>3 DEF new
  <2>6. CASE ~Reachable(list[k + 1])
    <3>1. new = old
      BY <2>3, <2>6
    <3>2. \A i \in 1 .. Len(new) : \E j \in 1 .. k + 1 : new[i] = list[j] /\ Reachable(list[j])
      BY <2>2, <2>4, <3>1
    <3>3. ASSUME NEW j \in 1 .. k + 1, Reachable(list[j])
          PROVE  \E i \in 1 .. Len(new) : new[i] = list[j]
      <4>1. j \in 1 .. k
        BY <2>2, <2>6, <3>3
      <4>. QED  BY <2>4, <3>1, <3>3, <4>1
    <3>. QED  BY <2>4, <3>1, <3>2, <3>3 DEF new
  <2>. QED  BY <2>5, <2>6
<1>. HIDE DEF T
<1>6. T = Nat
  BY <1>4, <1>5, SetInduction DEF T
<1>7. Good(n)
  <2>1. n \in T /\ n <= n
    BY <1>0, <1>6
  <2>. HIDE DEF Good
  <2>. QED  BY <2>1 DEF T
<1>. QED  BY <1>2, <1>7 DEF n

-----------------------------------------------------------------------------
(* Stops go down the tree *)

\* A token is in the list of its parent.
Listed(t) == \E i \in 1 .. Len(children[parent[t]]) : children[parent[t]][i] = t

\* The tree: a child expires no later than its parent, and one that is held is
\* in its parent's list.
TreeOK ==
  /\ Numbered
  /\ reason \in [Tokens -> Reasons \cup {"none"}]
  /\ children \in [Tokens -> Seq(Tokens)]
  /\ handles \subseteq Created
  /\ \A t \in Tokens \ Created : reason[t] = "none"
  /\ \A t \in Tokens : parent[t] # NoToken =>
       parent[t] \in Created /\ deadline[t] <= deadline[parent[t]]
  /\ \A t \in Tokens : \A i \in 1 .. Len(children[t]) : parent[children[t][i]] = t
  /\ \A t \in handles : parent[t] # NoToken => Listed(t)

Walking == {"take", "wake", "spread"}

\* What a thread works on.
ThreadsOK ==
  /\ at \in [Threads -> {"idle", "visit", "adopt"} \cup Walking]
  /\ current \in [Threads -> Tokens \cup {NoToken}]
  /\ pending \in [Threads -> Seq([token : Tokens, why : Reasons])]
  /\ \A th \in Threads :
       /\ at[th] \in {"idle", "adopt"} => pending[th] = << >>
       /\ at[th] \in Walking => current[th] \in Created /\ reason[current[th]] # "none"
       /\ at[th] = "adopt" => current[th] \in Created /\ parent[current[th]] # NoToken

\* A child is told of its parent only when somebody cancelled that one.
TellsParent(t) == parent[t] # NoToken /\ reason[parent[t]] \in {"requested", "parent"}

Told ==
  /\ \A t \in Tokens : reason[t] = "parent" => TellsParent(t)
  /\ \A th \in Threads : \A i \in 1 .. Len(pending[th]) :
       /\ pending[th][i].token \in Created
       /\ pending[th][i].why = "parent" => TellsParent(pending[th][i].token)

\* The thread will come to t: it makes t, or has it on its stack, or is at the
\* parent of t and has not walked the list yet.
ComesTo(th, t) ==
  \/ at[th] = "adopt" /\ current[th] = t
  \/ \E i \in 1 .. Len(pending[th]) : pending[th][i].token = t
  \/ at[th] \in Walking /\ current[th] = parent[t]

UnderWay(t) == \E th \in Threads : ComesTo(th, t)

NoneMissed ==
  \A t \in handles :
    parent[t] # NoToken /\ reason[parent[t]] # "none" => reason[t] # "none" \/ UnderWay(t)

\* StopsGoDown is inductive with all of it: a token a cancellation has not
\* reached yet must be in some thread's way.
StopInv == TreeOK /\ ThreadsOK /\ Told /\ NoneMissed

LEMMA StopInit == Init => StopInv
<1>. SUFFICES ASSUME Init PROVE StopInv
  OBVIOUS
<1>. USE CancellationAssumption DEF Init
<1>1. Numbered
  BY NumberedInit
<1>2. Created = {1} /\ 1 \in Tokens
  BY DEF Created, Tokens, NoToken
<1>3. TreeOK
  <2>1. \A t \in Tokens : children[t] = << >> /\ parent[t] = NoToken /\ reason[t] = "none"
    OBVIOUS
  <2>2. children \in [Tokens -> Seq(Tokens)]
    OBVIOUS
  <2>3. handles \subseteq Created
    BY <1>2
  <2>. QED  BY <1>1, <1>2, <2>1, <2>2, <2>3 DEF TreeOK
<1>4. ThreadsOK
  BY DEF ThreadsOK, Walking
<1>5. Told
  BY DEF Told
<1>6. NoneMissed
  BY <1>2 DEF NoneMissed
<1>. QED  BY <1>3, <1>4, <1>5, <1>6 DEF StopInv

\* The tree, when only handles go.
LEMMA TreeSame ==
  ASSUME TreeOK, Numbered', UNCHANGED <<parent, deadline, children, reason>>, handles' \subseteq handles
  PROVE  TreeOK' /\ Created' = Created
<1>1. Created' = Created
  BY DEF Created
<1>. QED  BY <1>1 DEF TreeOK, Listed

OthersSame(th) ==
  \A w \in Threads \ {th} : at'[w] = at[w] /\ current'[w] = current[w] /\ pending'[w] = pending[w]

\* What the other threads come to they still come to.
LEMMA WayKept ==
  ASSUME NEW th \in Threads, NEW t, OthersSame(th), parent'[t] = parent[t],
         UnderWay(t), ComesTo(th, t) => UnderWay(t)'
  PROVE  UnderWay(t)'
<1>1. PICK w \in Threads : ComesTo(w, t)
  BY DEF UnderWay
<1>2. CASE w = th
  BY <1>1, <1>2
<1>3. CASE w # th
  <2>1. ComesTo(w, t)'
    BY <1>1, <1>3 DEF OthersSame, ComesTo
  <2>. QED  BY <2>1 DEF UnderWay
<1>. QED  BY <1>2, <1>3

\* A step of one thread that changes no reason.
LEMMA ThreadGoes ==
  ASSUME StopInv, NEW th \in Threads, OthersSame(th), TreeOK', Created' = Created,
         UNCHANGED <<parent, reason>>, handles' \subseteq handles,
         at' \in [Threads -> {"idle", "visit", "adopt"} \cup Walking],
         current' \in [Threads -> Tokens \cup {NoToken}],
         pending' \in [Threads -> Seq([token : Tokens, why : Reasons])],
         at'[th] \in {"idle", "adopt"} => pending'[th] = << >>,
         at'[th] # "adopt",
         at'[th] \in Walking => current'[th] = current[th] /\ at[th] \in Walking,
         \A i \in 1 .. Len(pending'[th]) :
           /\ pending'[th][i].token \in Created
           /\ pending'[th][i].why = "parent" => TellsParent(pending'[th][i].token),
         \A t \in handles : parent[t] # NoToken /\ reason[parent[t]] # "none" /\ reason[t] = "none"
                            /\ ComesTo(th, t) => ComesTo(th, t)'
  PROVE  StopInv'
<1>. USE DEF StopInv
<1>1. ThreadsOK'
  BY DEF ThreadsOK, OthersSame
<1>2. Told'
  <2>1. \A t \in Tokens : reason'[t] = "parent" =>
          parent'[t] # NoToken /\ reason'[parent'[t]] \in {"requested", "parent"}
    BY DEF Told, TellsParent
  <2>2. ASSUME NEW w \in Threads, NEW i \in 1 .. Len(pending'[w])
        PROVE  /\ pending'[w][i].token \in Created'
               /\ pending'[w][i].why = "parent" =>
                    /\ parent'[pending'[w][i].token] # NoToken
                    /\ reason'[parent'[pending'[w][i].token]] \in {"requested", "parent"}
    <3>1. CASE w = th
      BY <3>1 DEF TellsParent
    <3>2. CASE w # th
      BY <3>2 DEF Told, OthersSame, TellsParent
    <3>. QED  BY <3>1, <3>2
  <2>. QED  BY <2>1, <2>2 DEF Told, TellsParent
<1>3. NoneMissed'
  <2>1. SUFFICES ASSUME NEW t \in handles', parent'[t] # NoToken, reason'[parent'[t]] # "none", reason'[t] = "none"
                 PROVE  UnderWay(t)'
    BY DEF NoneMissed
  <2>2. UnderWay(t)
    BY <2>1 DEF NoneMissed
  <2>3. ComesTo(th, t) => UnderWay(t)'
    BY <2>1 DEF UnderWay
  <2>. QED  BY <2>2, <2>3, WayKept
<1>. QED  BY <1>1, <1>2, <1>3

\* Neither the tree nor a thread moves, but for handles that go.
LEMMA StillStops ==
  ASSUME StopInv, Numbered', UNCHANGED <<parent, deadline, children, reason, at, current, pending>>,
         handles' \subseteq handles
  PROVE  StopInv'
<1>. USE DEF StopInv
<1>1. TreeOK' /\ Created' = Created
  BY TreeSame
<1>2. ThreadsOK'
  BY <1>1 DEF ThreadsOK
<1>3. Told'
  BY <1>1 DEF Told, TellsParent
<1>4. NoneMissed'
  BY DEF NoneMissed, UnderWay, ComesTo
<1>. QED  BY <1>1, <1>2, <1>3, <1>4

LEMMA ReturnStops ==
  ASSUME StopInv, Numbered', NEW th \in Threads, Return(th)
  PROVE  StopInv'
<1>1. UNCHANGED <<parent, deadline, children, reason, handles, current, pending>>
      /\ at[th] = "visit" /\ pending[th] = << >> /\ at' = [at EXCEPT ![th] = "idle"]
  BY DEF Return, Goto, treeVars
<1>2. TreeOK' /\ Created' = Created
  BY <1>1, TreeSame DEF StopInv
<1>3. at' \in [Threads -> {"idle", "visit", "adopt"} \cup Walking] /\ at'[th] = "idle" /\ OthersSame(th)
  BY <1>1 DEF StopInv, ThreadsOK, OthersSame
<1>4. Len(pending'[th]) = 0 /\ ~(\E t : ComesTo(th, t))
  BY <1>1 DEF ComesTo, Walking
<1>5. current' \in [Threads -> Tokens \cup {NoToken}] /\ pending' \in [Threads -> Seq([token : Tokens, why : Reasons])]
  BY <1>1 DEF StopInv, ThreadsOK
<1>6. /\ at'[th] # "adopt" /\ at'[th] \notin Walking /\ pending'[th] = << >>
      /\ \A i \in 1 .. Len(pending'[th]) : FALSE
  BY <1>1, <1>3, <1>4 DEF Walking
<1>. QED  BY <1>1, <1>2, <1>3, <1>4, <1>5, <1>6, ThreadGoes

LEMMA CancelStops ==
  ASSUME StopInv, Numbered', NEW th \in Threads, NEW t \in Tokens, NEW why \in {"requested", "deadline"},
         Cancel(th, t, why)
  PROVE  StopInv'
<1>. DEFINE one == <<[token |-> t, why |-> why]>>
<1>1. /\ UNCHANGED <<parent, deadline, children, reason, handles, current>>
      /\ at[th] = "idle" /\ at' = [at EXCEPT ![th] = "visit"]
      /\ pending' = [pending EXCEPT ![th] = one] /\ t \in handles
  BY DEF Cancel, Goto, treeVars, Usable
<1>2. TreeOK' /\ Created' = Created
  BY <1>1, TreeSame DEF StopInv
<1>3. /\ at' \in [Threads -> {"idle", "visit", "adopt"} \cup Walking] /\ at'[th] = "visit"
      /\ OthersSame(th) /\ current' \in [Threads -> Tokens \cup {NoToken}]
  BY <1>1 DEF StopInv, ThreadsOK, OthersSame
<1>4. ~(\E x : ComesTo(th, x))
  BY <1>1 DEF ComesTo, Walking, StopInv, ThreadsOK
<1>5. one \in Seq([token : Tokens, why : Reasons])
  BY DEF Reasons
<1>6. pending' \in [Threads -> Seq([token : Tokens, why : Reasons])] /\ pending'[th] = one
  BY <1>1, <1>5 DEF StopInv, ThreadsOK
<1>7. \A i \in 1 .. Len(pending'[th]) : pending'[th][i].token \in Created /\ pending'[th][i].why # "parent"
  BY <1>1, <1>6 DEF StopInv, TreeOK
<1>. QED  BY <1>1, <1>2, <1>3, <1>4, <1>6, <1>7, ThreadGoes DEF Walking

LEMMA WakeStops ==
  ASSUME StopInv, Numbered', NEW th \in Threads, TakeWaiters(th) \/ Wake(th)
  PROVE  StopInv'
<1>1. /\ UNCHANGED <<parent, deadline, children, reason, handles, current, pending>>
      /\ at[th] \in Walking
      /\ at' = at \/ \E place \in Walking : at' = [at EXCEPT ![th] = place]
  BY DEF TakeWaiters, Wake, Goto, treeVars, Walking
<1>2. TreeOK' /\ Created' = Created
  BY <1>1, TreeSame DEF StopInv
<1>3. /\ at' \in [Threads -> {"idle", "visit", "adopt"} \cup Walking] /\ at'[th] \in Walking
      /\ OthersSame(th) /\ current' \in [Threads -> Tokens \cup {NoToken}]
      /\ pending' \in [Threads -> Seq([token : Tokens, why : Reasons])]
  BY <1>1 DEF StopInv, ThreadsOK, OthersSame
<1>4. \A t : ComesTo(th, t) => ComesTo(th, t)'
  BY <1>1, <1>3 DEF ComesTo, Walking
<1>5. \A i \in 1 .. Len(pending'[th]) :
        /\ pending'[th][i].token \in Created
        /\ pending'[th][i].why = "parent" => TellsParent(pending'[th][i].token)
  BY <1>1 DEF StopInv, Told
<1>6. at'[th] \notin {"idle", "visit", "adopt"}
  BY <1>3 DEF Walking
<1>. QED  BY <1>1, <1>2, <1>3, <1>4, <1>5, <1>6, ThreadGoes

\* What was on the stack stays below what is pushed: every child that is held
\* is pushed, because it is listed and can be reached.
LEMMA SpreadStops ==
  ASSUME StopInv, Numbered', NEW th \in Threads, Spread(th)
  PROVE  StopInv'
<1>. DEFINE c == current[th]
            list == children[c]
            present == Present(list)
            why == Propagated(reason[c])
            told == [i \in 1 .. Len(present) |-> [token |-> present[i], why |-> why]]
            Frames == [token : Tokens, why : Reasons]
<1>1. /\ UNCHANGED <<parent, deadline, reason, handles>>
      /\ at[th] = "spread" /\ at' = [at EXCEPT ![th] = "visit"]
      /\ children' = [children EXCEPT ![c] = present]
      /\ current' = [current EXCEPT ![th] = NoToken]
      /\ pending' = [pending EXCEPT ![th] = @ \o told]
  BY DEF Spread, Goto
<1>2. /\ c \in Created /\ c \in Tokens /\ c # NoToken
      /\ reason[c] \in Reasons /\ list \in Seq(Tokens) /\ pending[th] \in Seq(Frames)
  <2>1. c \in Created /\ reason[c] # "none"
    BY <1>1 DEF StopInv, ThreadsOK, Walking
  <2>2. c \in Tokens /\ c # NoToken
    BY <2>1 DEF Created, Tokens, NoToken
  <2>3. reason[c] \in Reasons /\ list \in Seq(Tokens)
    BY <2>1, <2>2 DEF StopInv, TreeOK
  <2>4. pending[th] \in Seq(Frames)
    BY DEF StopInv, ThreadsOK
  <2>. QED  BY <2>1, <2>2, <2>3, <2>4
<1>. HIDE DEF c, list
<1>3. /\ present \in Seq(Tokens)
      /\ \A i \in 1 .. Len(present) : \E j \in 1 .. Len(list) : present[i] = list[j]
      /\ \A j \in 1 .. Len(list) : Reachable(list[j]) => \E i \in 1 .. Len(present) : present[i] = list[j]
  BY <1>2, PresentIs
<1>. HIDE DEF present
<1>4. \A i \in 1 .. Len(present) : present[i] \in Tokens /\ parent[present[i]] = c
  <2>1. ASSUME NEW i \in 1 .. Len(present) PROVE present[i] \in Tokens /\ parent[present[i]] = c
    <3>1. PICK j \in 1 .. Len(list) : present[i] = list[j]
      BY <1>3
    <3>2. parent[list[j]] = c
      BY <1>2 DEF StopInv, TreeOK, list
    <3>3. present[i] \in Tokens
      BY <1>3
    <3>. QED  BY <3>1, <3>2, <3>3
  <2>. QED  BY <2>1
<1>5. \A t \in handles : parent[t] = c => \E i \in 1 .. Len(present) : present[i] = t
  <2>1. ASSUME NEW t \in handles, parent[t] = c PROVE \E i \in 1 .. Len(present) : present[i] = t
    <3>1. PICK j \in 1 .. Len(list) : list[j] = t
      BY <1>2, <2>1 DEF StopInv, TreeOK, Listed, list
    <3>2. Reachable(t)
      BY DEF Reachable
    <3>. QED  BY <1>3, <3>1, <3>2
  <2>. QED  BY <2>1
<1>6. Created' = Created
  BY <1>1 DEF Created
<1>7. TreeOK'
  <2>1. children' \in [Tokens -> Seq(Tokens)]
    BY <1>1, <1>3 DEF StopInv, TreeOK
  <2>2. \A t \in Tokens : \A i \in 1 .. Len(children'[t]) : parent'[children'[t][i]] = t
    BY <1>1, <1>2, <1>4 DEF StopInv, TreeOK
  <2>3. \A t \in handles : parent[t] # NoToken => Listed(t)'
    <3>1. ASSUME NEW t \in handles, parent[t] # NoToken PROVE Listed(t)'
      <4>1. CASE parent[t] = c
        <5>1. children'[c] = present
          BY <1>1, <1>2 DEF StopInv, TreeOK
        <5>. QED  BY <1>1, <1>5, <4>1, <5>1 DEF Listed
      <4>2. CASE parent[t] # c
        <5>1. children'[parent[t]] = children[parent[t]]
          BY <1>1, <4>2 DEF StopInv, TreeOK
        <5>2. Listed(t)
          BY <3>1 DEF StopInv, TreeOK
        <5>. QED  BY <1>1, <5>1, <5>2 DEF Listed
      <4>. QED  BY <4>1, <4>2
    <3>. QED  BY <3>1
  <2>. QED  BY <1>1, <1>6, <2>1, <2>2, <2>3 DEF StopInv, TreeOK
<1>8. why \in Reasons /\ (why = "parent" => reason[c] \in {"requested", "parent"})
  BY <1>2 DEF Propagated, Reasons
<1>9. /\ told \in Seq(Frames) /\ Len(told) = Len(present)
      /\ \A i \in 1 .. Len(present) : told[i].token = present[i] /\ told[i].why = why
  <2>. HIDE DEF why
  <2>1. Len(present) \in Nat
    BY <1>3
  <2>2. told \in [1 .. Len(present) -> Frames]
    BY <1>4, <1>8
  <2>. QED  BY <2>1, <2>2
<1>. HIDE DEF told
<1>10. /\ pending'[th] = pending[th] \o told
       /\ pending' \in [Threads -> Seq(Frames)]
  <2>. HIDE DEF Frames
  <2>1. pending[th] \o told \in Seq(Frames)
    BY <1>2, <1>9
  <2>2. pending \in [Threads -> Seq(Frames)]
    BY DEF StopInv, ThreadsOK, Frames
  <2>. QED  BY <1>1, <2>1, <2>2
<1>. DEFINE n == Len(pending[th])
<1>11. /\ n \in Nat /\ Len(told) \in Nat /\ Len(pending'[th]) = n + Len(told)
       /\ \A i \in 1 .. n : pending'[th][i] = pending[th][i]
       /\ \A i \in 1 .. Len(told) : pending'[th][n + i] = told[i]
  BY <1>2, <1>9, <1>10
<1>. HIDE DEF n
<1>12. ASSUME NEW i \in 1 .. Len(pending'[th])
       PROVE  /\ pending'[th][i].token \in Created
              /\ pending'[th][i].why = "parent" => TellsParent(pending'[th][i].token)
  <2>1. CASE i \in 1 .. n
    BY <1>11, <2>1 DEF StopInv, Told, n
  <2>2. CASE i \notin 1 .. n
    <3>1. PICK k \in 1 .. Len(told) : i = n + k
      <4>1. i - n \in 1 .. Len(told) /\ i = n + (i - n)
        BY <1>11, <2>2
      <4>. QED  BY <4>1
    <3>2. pending'[th][i].token = present[k] /\ pending'[th][i].why = why
      BY <1>9, <1>11, <3>1
    <3>3. present[k] \in Created /\ parent[present[k]] = c
      BY <1>2, <1>4, <1>9 DEF Created
    <3>. QED  BY <1>2, <1>8, <3>2, <3>3 DEF TellsParent
  <2>. QED  BY <2>1, <2>2
<1>13. ASSUME NEW t \in handles, ComesTo(th, t) PROVE ComesTo(th, t)'
  <2>1. CASE \E i \in 1 .. n : pending[th][i].token = t
    <3>1. PICK i \in 1 .. n : pending[th][i].token = t
      BY <2>1
    <3>2. i \in 1 .. Len(pending'[th])
      BY <1>11
    <3>3. pending'[th][i] = pending[th][i]
      BY <1>11
    <3>. QED  BY <3>1, <3>2, <3>3 DEF ComesTo
  <2>2. CASE parent[t] = c
    <3>1. PICK i \in 1 .. Len(told) : told[i].token = t
      BY <1>5, <1>9, <2>2
    <3>2. n + i \in 1 .. Len(pending'[th]) /\ pending'[th][n + i].token = t
      BY <1>11, <3>1
    <3>. QED  BY <3>2 DEF ComesTo
  <2>. QED  BY <1>1, <1>13, <2>1, <2>2 DEF ComesTo, c, n
<1>14. /\ at' \in [Threads -> {"idle", "visit", "adopt"} \cup Walking] /\ at'[th] = "visit"
       /\ current' \in [Threads -> Tokens \cup {NoToken}] /\ OthersSame(th)
  BY <1>1 DEF StopInv, ThreadsOK, OthersSame
<1>. QED  BY <1>1, <1>6, <1>7, <1>10, <1>12, <1>13, <1>14, ThreadGoes DEF Walking

\* A parent cancelled before the child was listed is seen by the second look.
LEMMA AdoptStops ==
  ASSUME StopInv, Numbered', NEW th \in Threads, Adopt(th)
  PROVE  StopInv'
<1>. DEFINE c == current[th]
            why == Reason(parent[c])
            one == <<[token |-> c, why |-> Propagated(why)]>>
<1>1. /\ UNCHANGED <<parent, deadline, children, reason, handles>>
      /\ at[th] = "adopt" /\ at' = [at EXCEPT ![th] = "visit"]
      /\ current' = [current EXCEPT ![th] = NoToken]
      /\ pending' = IF why = "none" THEN pending ELSE [pending EXCEPT ![th] = one]
  BY DEF Adopt, Goto, treeVars
<1>2. c \in Created /\ c \in Tokens /\ parent[c] \in Tokens /\ pending[th] = << >>
  BY <1>1 DEF StopInv, ThreadsOK, TreeOK, Walking, Created
<1>3. parent[c] # NoToken /\ reason[parent[c]] \in Reasons \cup {"none"}
  BY <1>1, <1>2 DEF StopInv, ThreadsOK, TreeOK
<1>4. TreeOK' /\ Created' = Created
  BY <1>1, TreeSame DEF StopInv
<1>5. /\ why \in Reasons \cup {"none"}
      /\ why = "none" => reason[parent[c]] = "none"
      /\ why # "none" => /\ Propagated(why) \in Reasons
                         /\ Propagated(why) = "parent" => reason[parent[c]] \in {"requested", "parent"}
  BY <1>3 DEF Reason, Propagated, Reasons
<1>6. /\ at' \in [Threads -> {"idle", "visit", "adopt"} \cup Walking] /\ at'[th] = "visit"
      /\ current' \in [Threads -> Tokens \cup {NoToken}] /\ OthersSame(th)
  BY <1>1 DEF StopInv, ThreadsOK, OthersSame
<1>7. \A t : ComesTo(th, t) => t = c
  BY <1>1, <1>2 DEF ComesTo, Walking
<1>. HIDE DEF c, why
<1>8. CASE why = "none"
  <2>1. \A t \in handles : reason[parent[t]] # "none" => ~ComesTo(th, t)
    BY <1>5, <1>7, <1>8
  <2>2. pending' = pending /\ Len(pending'[th]) = 0
    BY <1>1, <1>2, <1>8
  <2>3. pending' \in [Threads -> Seq([token : Tokens, why : Reasons])]
    BY <2>2 DEF StopInv, ThreadsOK
  <2>4. /\ at'[th] \notin {"idle", "adopt"} /\ at'[th] \notin Walking
        /\ \A i \in 1 .. Len(pending'[th]) : FALSE
    BY <1>6, <2>2 DEF Walking
  <2>. QED  BY <1>1, <1>4, <1>6, <2>1, <2>3, <2>4, ThreadGoes
<1>9. CASE why # "none"
  <2>1. one \in Seq([token : Tokens, why : Reasons]) /\ Len(one) = 1 /\ one[1].token = c /\ one[1].why = Propagated(why)
    BY <1>2, <1>5, <1>9
  <2>2. pending' \in [Threads -> Seq([token : Tokens, why : Reasons])] /\ pending'[th] = one
    BY <1>1, <1>9, <2>1 DEF StopInv, ThreadsOK
  <2>6. Len(pending'[th]) = 1 /\ pending'[th][1].token = c /\ pending'[th][1].why = Propagated(why)
    BY <2>1, <2>2
  <2>3. \A i \in 1 .. Len(pending'[th]) :
          /\ pending'[th][i].token \in Created
          /\ pending'[th][i].why = "parent" => TellsParent(pending'[th][i].token)
    <3>1. TellsParent(c) \/ Propagated(why) # "parent"
      BY <1>3, <1>5, <1>9 DEF TellsParent
    <3>. QED  BY <1>2, <2>6, <3>1
  <2>4. ASSUME NEW t, t = c PROVE ComesTo(th, t)'
    <3>1. 1 \in 1 .. Len(pending'[th]) /\ pending'[th][1].token = t
      BY <2>4, <2>6
    <3>. QED  BY <3>1 DEF ComesTo
  <2>5. /\ at'[th] \notin {"idle", "adopt"} /\ at'[th] \notin Walking
        /\ \A t : ComesTo(th, t) => ComesTo(th, t)'
    BY <1>6, <1>7, <2>4 DEF Walking
  <2>. QED  BY <1>1, <1>4, <1>6, <2>2, <2>3, <2>5, ThreadGoes
<1>. QED  BY <1>8, <1>9

\* Only the token on top of the stack gets a reason, and the thread goes on to
\* its children; a token that has one is passed over, and so is what is below.
LEMMA VisitStops ==
  ASSUME StopInv, Numbered', NEW th \in Threads, Visit(th)
  PROVE  StopInv'
<1>. DEFINE top == pending[th][Len(pending[th])]
            rest == SubSeq(pending[th], 1, Len(pending[th]) - 1)
            Frames == [token : Tokens, why : Reasons]
            n == Len(pending[th])
<1>1. /\ UNCHANGED <<parent, deadline, children, handles>>
      /\ at[th] = "visit" /\ pending[th] # << >>
      /\ pending' = [pending EXCEPT ![th] = rest]
      /\ \/ reason[top.token] # "none" /\ UNCHANGED <<reason, current, at>>
         \/ /\ reason[top.token] = "none"
            /\ reason' = [reason EXCEPT ![top.token] = top.why]
            /\ current' = [current EXCEPT ![th] = top.token]
            /\ at' = [at EXCEPT ![th] = "take"]
  BY DEF Visit, Goto, treeVars
<1>2. pending[th] \in Seq(Frames) /\ n \in Nat /\ n > 0
  <2>. HIDE DEF Frames
  <2>1. pending[th] \in Seq(Frames)
    BY DEF StopInv, ThreadsOK, Frames
  <2>2. n \in Nat /\ n # 0
    BY <1>1, <2>1
  <2>. QED  BY <2>1, <2>2
<1>3. n \in 1 .. Len(pending[th]) /\ top = pending[th][n]
  BY <1>2
<1>14. top \in Frames
  <2>. HIDE DEF Frames, n
  <2>. QED  BY <1>2, <1>3
<1>4. rest \in Seq(Frames) /\ Len(rest) = n - 1 /\ \A i \in 1 .. n - 1 : rest[i] = pending[th][i]
  <2>. HIDE DEF Frames
  <2>1. n - 1 \in 0 .. Len(pending[th])
    BY <1>2
  <2>2. \A i \in 1 .. n - 1 : pending[th][i] \in Frames
    BY <1>2
  <2>. QED  BY <1>2, <2>1, <2>2
<1>5. top.token \in Created /\ (top.why = "parent" => TellsParent(top.token))
  BY <1>3 DEF StopInv, Told
<1>6. top.token \in Tokens /\ top.why \in Reasons
  BY <1>14
<1>7. Created' = Created
  BY <1>1 DEF Created
<1>. HIDE DEF top, rest, n
<1>8. /\ pending'[th] = rest /\ pending' \in [Threads -> Seq(Frames)]
      /\ \A w \in Threads \ {th} : pending'[w] = pending[w]
  <2>. HIDE DEF Frames
  <2>1. pending \in [Threads -> Seq(Frames)]
    BY DEF StopInv, ThreadsOK, Frames
  <2>. QED  BY <1>1, <1>4, <2>1
<1>9. \A i \in 1 .. Len(pending'[th]) :
        /\ pending'[th][i].token \in Created
        /\ pending'[th][i].why = "parent" => TellsParent(pending'[th][i].token)
  <2>1. ASSUME NEW i \in 1 .. Len(pending'[th])
        PROVE  i \in 1 .. Len(pending[th]) /\ pending'[th][i] = pending[th][i]
    BY <1>2, <1>4, <1>8 DEF n
  <2>. QED  BY <2>1 DEF StopInv, Told
\* What is below the top is still on the stack.
<1>10. ASSUME NEW t, t # top.token, ComesTo(th, t)
       PROVE  \E i \in 1 .. Len(pending'[th]) : pending'[th][i].token = t
  <2>1. PICK i \in 1 .. Len(pending[th]) : pending[th][i].token = t
    BY <1>1, <1>10 DEF ComesTo, Walking
  <2>2. i # n
    BY <1>3, <1>10, <2>1
  <2>3. i \in 1 .. Len(pending'[th]) /\ pending'[th][i] = pending[th][i]
    BY <1>2, <1>4, <1>8, <2>1, <2>2 DEF n
  <2>. QED  BY <2>1, <2>3
<1>11. CASE reason[top.token] # "none" /\ UNCHANGED <<reason, current, at>>
  <2>1. TreeOK'
    BY <1>1, <1>11, TreeSame DEF StopInv
  <2>2. /\ OthersSame(th) /\ at' \in [Threads -> {"idle", "visit", "adopt"} \cup Walking]
        /\ current' \in [Threads -> Tokens \cup {NoToken}]
        /\ at'[th] \notin {"idle", "adopt"} /\ at'[th] \notin Walking
    BY <1>1, <1>8, <1>11 DEF StopInv, ThreadsOK, OthersSame, Walking
  <2>3. ASSUME NEW t \in handles, reason[t] = "none", ComesTo(th, t) PROVE ComesTo(th, t)'
    <3>1. \E i \in 1 .. Len(pending'[th]) : pending'[th][i].token = t
      BY <1>10, <1>11, <2>3
    <3>. QED  BY <3>1 DEF ComesTo
  <2>. QED  BY <1>1, <1>7, <1>8, <1>9, <1>11, <2>1, <2>2, <2>3, ThreadGoes
<1>12. CASE /\ reason[top.token] = "none"
            /\ reason' = [reason EXCEPT ![top.token] = top.why]
            /\ current' = [current EXCEPT ![th] = top.token]
            /\ at' = [at EXCEPT ![th] = "take"]
  <2>0. reason \in [Tokens -> Reasons \cup {"none"}] /\ "none" \notin Reasons
    BY DEF StopInv, TreeOK, Reasons
  <2>1. /\ reason'[top.token] = top.why /\ reason'[top.token] # "none"
        /\ \A t \in Tokens \ {top.token} : reason'[t] = reason[t]
    BY <1>6, <1>12, <2>0
  <2>2. reason' \in [Tokens -> Reasons \cup {"none"}]
    BY <1>6, <1>12, <2>0
  <2>3. \A t \in Tokens : reason[t] # "none" => reason'[t] = reason[t]
    BY <1>12, <2>1
  <2>4. TreeOK'
    <3>1. \A t \in Tokens \ Created : reason'[t] = "none"
      BY <1>5, <2>1 DEF StopInv, TreeOK
    <3>. QED  BY <1>1, <1>7, <2>2, <3>1 DEF StopInv, TreeOK, Listed
  <2>5. /\ at' \in [Threads -> {"idle", "visit", "adopt"} \cup Walking] /\ at'[th] = "take"
        /\ current' \in [Threads -> Tokens \cup {NoToken}] /\ current'[th] = top.token
        /\ OthersSame(th)
    BY <1>6, <1>8, <1>12 DEF StopInv, ThreadsOK, OthersSame, Walking
  <2>6. ThreadsOK'
    <3>1. ASSUME NEW w \in Threads
          PROVE  /\ at'[w] \in {"idle", "adopt"} => pending'[w] = << >>
                 /\ at'[w] \in Walking => current'[w] \in Created /\ reason'[current'[w]] # "none"
                 /\ at'[w] = "adopt" => current'[w] \in Created /\ parent'[current'[w]] # NoToken
      <4>1. CASE w = th
        BY <1>5, <2>1, <2>5, <4>1
      <4>2. CASE w # th
        BY <1>1, <2>3, <2>5, <4>2 DEF StopInv, ThreadsOK, OthersSame, Created
      <4>. QED  BY <4>1, <4>2
    <3>. QED  BY <1>7, <1>8, <2>5, <3>1 DEF ThreadsOK
  <2>7. ASSUME NEW t \in Tokens, TellsParent(t)
        PROVE  parent'[t] # NoToken /\ reason'[parent'[t]] \in {"requested", "parent"}
    <3>1. parent[t] \in Tokens
      BY <2>7 DEF StopInv, TreeOK, TellsParent, Created
    <3>. QED  BY <1>1, <2>3, <2>7, <3>1 DEF TellsParent
  <2>8. Told'
    <3>1. ASSUME NEW t \in Tokens, reason'[t] = "parent" PROVE TellsParent(t)
      <4>1. CASE t = top.token
        BY <1>5, <2>1, <3>1, <4>1
      <4>2. CASE t # top.token
        BY <2>1, <3>1, <4>2 DEF StopInv, Told
      <4>. QED  BY <4>1, <4>2
    <3>2. ASSUME NEW w \in Threads, NEW i \in 1 .. Len(pending'[w])
          PROVE  /\ pending'[w][i].token \in Created
                 /\ pending'[w][i].why = "parent" => TellsParent(pending'[w][i].token)
      BY <1>8, <1>9 DEF StopInv, Told
    <3>3. \A w \in Threads : \A i \in 1 .. Len(pending'[w]) : pending'[w][i].token \in Tokens
      BY <3>2 DEF Created
    <3>. QED  BY <1>7, <2>7, <3>1, <3>2, <3>3 DEF Told, TellsParent
  <2>9. NoneMissed'
    <3>1. SUFFICES ASSUME NEW t \in handles', parent'[t] # NoToken,
                          reason'[parent'[t]] # "none", reason'[t] = "none"
                   PROVE  UnderWay(t)'
      BY DEF NoneMissed
    <3>2. t \in handles /\ t \in Tokens /\ t # top.token /\ reason[t] = "none"
          /\ parent'[t] = parent[t] /\ parent[t] \in Tokens
      BY <1>1, <2>1, <3>1 DEF StopInv, TreeOK, Created
    <3>3. CASE parent[t] = top.token
      <4>1. ComesTo(th, t)'
        BY <2>5, <3>2, <3>3 DEF ComesTo, Walking
      <4>. QED  BY <4>1 DEF UnderWay
    <3>4. CASE parent[t] # top.token
      <4>1. UnderWay(t)
        BY <2>1, <3>1, <3>2, <3>4 DEF StopInv, NoneMissed
      <4>2. ASSUME ComesTo(th, t) PROVE ComesTo(th, t)'
        <5>1. \E i \in 1 .. Len(pending'[th]) : pending'[th][i].token = t
          BY <1>10, <3>2, <4>2
        <5>. QED  BY <5>1 DEF ComesTo
      <4>3. ComesTo(th, t) => UnderWay(t)'
        BY <4>2 DEF UnderWay
      <4>. QED  BY <2>5, <3>2, <4>1, <4>3, WayKept
    <3>. QED  BY <3>3, <3>4
  <2>. QED  BY <2>4, <2>6, <2>8, <2>9 DEF StopInv
<1>. QED  BY <1>1, <1>11, <1>12

\* A child is listed, and its maker comes back to it with the second look.
LEMMA MakeChildStops ==
  ASSUME StopInv, NEW th \in Threads, NEW t \in Tokens, NEW asked \in Deadlines,
         MakeChild(th, t, asked)
  PROVE  StopInv'
<1>. DEFINE child == Cardinality(Created) + 1
            present == Present(children[t])
<1>1. /\ at[th] = "idle" /\ t \in handles
      /\ parent' = [parent EXCEPT ![child] = t]
      /\ deadline' = [deadline EXCEPT ![child] = ChildDeadline(t, asked)]
      /\ children' = [children EXCEPT ![t] = Append(present, child)]
      /\ handles' = handles \cup {child}
      /\ current' = [current EXCEPT ![th] = child]
      /\ at' = [at EXCEPT ![th] = "adopt"]
      /\ UNCHANGED <<reason, pending>>
  BY DEF MakeChild, Goto, Usable
<1>2. Numbered' /\ child \in Tokens /\ child \notin Created /\ Created' = Created \cup {child}
  BY MakeChildNumbers DEF StopInv, TreeOK
<1>3. /\ present \in Seq(Tokens)
      /\ \A i \in 1 .. Len(present) : \E j \in 1 .. Len(children[t]) : present[i] = children[t][j]
      /\ \A j \in 1 .. Len(children[t]) : Reachable(children[t][j]) =>
           \E i \in 1 .. Len(present) : present[i] = children[t][j]
  <2>1. children[t] \in Seq(Tokens)
    BY DEF StopInv, TreeOK
  <2>. QED  BY <2>1, PresentIs
<1>4. t \in Created /\ t # child /\ t # NoToken
  BY <1>1, <1>2 DEF StopInv, TreeOK, Tokens, NoToken
<1>. HIDE DEF child, present
<1>5. /\ Len(present) \in Nat
      /\ Append(present, child) \in Seq(Tokens)
      /\ Len(Append(present, child)) = Len(present) + 1
      /\ \A i \in 1 .. Len(present) : Append(present, child)[i] = present[i]
      /\ Append(present, child)[Len(present) + 1] = child
  BY <1>2, <1>3
<1>6. /\ parent'[child] = t
      /\ \A x \in Created : x # child /\ parent'[x] = parent[x] /\ deadline'[x] = deadline[x]
      /\ \A x \in Tokens : x # child => parent'[x] = parent[x]
  BY <1>1, <1>2 DEF StopInv, TreeOK, Numbered, Created
<1>7. /\ children' \in [Tokens -> Seq(Tokens)]
      /\ children'[t] = Append(present, child)
      /\ \A x \in Tokens : x # t => children'[x] = children[x]
  BY <1>1, <1>5 DEF StopInv, TreeOK
<1>8. TreeOK'
  <2>1. \A x \in Tokens \ Created' : reason'[x] = "none"
    BY <1>1, <1>2 DEF StopInv, TreeOK
  <2>2. ASSUME NEW x \in Tokens, parent'[x] # NoToken
        PROVE  parent'[x] \in Created' /\ deadline'[x] <= deadline'[parent'[x]]
    <3>1. CASE x = child
      <4>1. deadline'[x] = ChildDeadline(t, asked) /\ deadline'[t] = deadline[t]
        BY <1>1, <1>2, <1>4, <1>6, <3>1 DEF StopInv, TreeOK, Numbered
      <4>2. deadline[t] \in 0 .. Never /\ asked \in 0 .. Never
        BY CancellationAssumption DEF StopInv, TreeOK, Numbered
      <4>3. ChildDeadline(t, asked) <= deadline[t]
        BY <4>2, CancellationAssumption DEF ChildDeadline, Lesser, Never
      <4>. QED  BY <1>2, <1>4, <1>6, <3>1, <4>1, <4>3
    <3>2. CASE x # child
      <4>1. parent'[x] = parent[x] /\ x \in Created
        BY <1>6, <2>2, <3>2 DEF Created
      <4>2. parent[x] \in Created /\ deadline[x] <= deadline[parent[x]]
        BY <2>2, <4>1 DEF StopInv, TreeOK
      <4>. QED  BY <1>2, <1>6, <4>1, <4>2
    <3>. QED  BY <3>1, <3>2
  <2>3. ASSUME NEW x \in Tokens, NEW i \in 1 .. Len(children'[x])
        PROVE  parent'[children'[x][i]] = x
    <3>1. \A j \in 1 .. Len(children[x]) : children[x][j] \in Tokens /\ parent'[children[x][j]] = x
      <4>1. ASSUME NEW j \in 1 .. Len(children[x]) PROVE children[x][j] \in Tokens /\ parent'[children[x][j]] = x
        <5>1. children[x] \in Seq(Tokens)
          BY DEF StopInv, TreeOK
        <5>2. children[x][j] \in Tokens /\ parent[children[x][j]] = x
          BY <5>1 DEF StopInv, TreeOK
        <5>3. children[x][j] \in Created
          BY <5>2 DEF Created, Tokens, NoToken
        <5>. QED  BY <1>6, <5>2, <5>3
      <4>. QED  BY <4>1
    <3>2. CASE x # t
      BY <1>7, <3>1, <3>2
    <3>3. CASE x = t
      <4>1. CASE i \in 1 .. Len(present)
        <5>1. PICK j \in 1 .. Len(children[t]) : present[i] = children[t][j]
          BY <1>3, <4>1
        <5>2. children'[x][i] = present[i]
          BY <1>5, <1>7, <3>3, <4>1
        <5>3. parent'[children[t][j]] = x
          BY <3>1, <3>3
        <5>. QED  BY <5>1, <5>2, <5>3
      <4>2. CASE i = Len(present) + 1
        BY <1>5, <1>6, <1>7, <3>3, <4>2
      <4>. QED  BY <1>5, <1>7, <3>3, <4>1, <4>2
    <3>. QED  BY <3>2, <3>3
  <2>4. ASSUME NEW x \in handles', parent'[x] # NoToken PROVE Listed(x)'
    <3>1. CASE x = child
      <4>1. Len(present) + 1 \in 1 .. Len(children'[t]) /\ children'[t][Len(present) + 1] = child
        BY <1>5, <1>7
      <4>. QED  BY <1>6, <3>1, <4>1 DEF Listed
    <3>2. CASE x # child
      <4>1. x \in handles /\ x \in Created /\ parent'[x] = parent[x]
        BY <1>1, <1>6, <3>2 DEF StopInv, TreeOK
      <4>2. PICK j \in 1 .. Len(children[parent[x]]) : children[parent[x]][j] = x
        BY <2>4, <4>1 DEF StopInv, TreeOK, Listed
      <4>3. parent[x] \in Tokens
        BY <2>4, <4>1 DEF StopInv, TreeOK, Created
      <4>4. CASE parent[x] = t
        <5>1. Reachable(x)
          BY <4>1 DEF Reachable
        <5>4. j \in 1 .. Len(children[t]) /\ children[t][j] = x
          BY <4>2, <4>4
        <5>5. Reachable(children[t][j])
          BY <5>1, <5>4
        <5>2. PICK i \in 1 .. Len(present) : present[i] = x
          BY <1>3, <5>4, <5>5
        <5>3. i \in 1 .. Len(children'[t]) /\ children'[t][i] = x
          BY <1>5, <1>7, <5>2
        <5>. QED  BY <4>1, <4>4, <5>3 DEF Listed
      <4>5. CASE parent[x] # t
        BY <1>7, <4>1, <4>2, <4>3, <4>5 DEF Listed
      <4>. QED  BY <4>4, <4>5
    <3>. QED  BY <3>1, <3>2
  <2>5. handles' \subseteq Created' /\ reason' \in [Tokens -> Reasons \cup {"none"}]
    BY <1>1, <1>2 DEF StopInv, TreeOK
  <2>. QED  BY <1>2, <1>7, <2>1, <2>2, <2>3, <2>4, <2>5 DEF TreeOK
<1>9. /\ at' \in [Threads -> {"idle", "visit", "adopt"} \cup Walking] /\ at'[th] = "adopt"
      /\ current' \in [Threads -> Tokens \cup {NoToken}] /\ current'[th] = child
      /\ OthersSame(th) /\ pending[th] = << >>
  BY <1>1, <1>2 DEF StopInv, ThreadsOK, OthersSame
<1>10. ThreadsOK'
  <2>1. ASSUME NEW w \in Threads
        PROVE  /\ at'[w] \in {"idle", "adopt"} => pending'[w] = << >>
               /\ at'[w] \in Walking => current'[w] \in Created' /\ reason'[current'[w]] # "none"
               /\ at'[w] = "adopt" => current'[w] \in Created' /\ parent'[current'[w]] # NoToken
    <3>1. CASE w = th
      BY <1>1, <1>2, <1>4, <1>6, <1>9, <3>1 DEF Walking
    <3>2. CASE w # th
      BY <1>1, <1>2, <1>6, <1>9, <3>2 DEF StopInv, ThreadsOK, OthersSame
    <3>. QED  BY <3>1, <3>2
  <2>2. pending' \in [Threads -> Seq([token : Tokens, why : Reasons])]
    BY <1>1 DEF StopInv, ThreadsOK
  <2>. QED  BY <1>9, <2>1, <2>2 DEF ThreadsOK
<1>11. ASSUME NEW x \in Created, TellsParent(x)
       PROVE  parent'[x] # NoToken /\ reason'[parent'[x]] \in {"requested", "parent"}
  BY <1>1, <1>6, <1>11 DEF TellsParent
<1>12. Told'
  <2>1. ASSUME NEW x \in Tokens, reason'[x] = "parent" PROVE x \in Created /\ TellsParent(x)
    BY <1>1, <2>1 DEF StopInv, Told, TreeOK
  <2>2. ASSUME NEW w \in Threads, NEW i \in 1 .. Len(pending[w])
        PROVE  /\ pending[w][i].token \in Created
               /\ pending[w][i].why = "parent" => TellsParent(pending[w][i].token)
    BY DEF StopInv, Told
  <2>. QED  BY <1>1, <1>2, <1>11, <2>1, <2>2 DEF Told, TellsParent
<1>13. NoneMissed'
  <2>1. SUFFICES ASSUME NEW x \in handles', parent'[x] # NoToken,
                        reason'[parent'[x]] # "none", reason'[x] = "none"
                 PROVE  UnderWay(x)'
    BY DEF NoneMissed
  <2>2. CASE x = child
    <3>1. ComesTo(th, x)'
      BY <1>9, <2>2 DEF ComesTo
    <3>. QED  BY <3>1 DEF UnderWay
  <2>3. CASE x # child
    <3>1. x \in handles /\ parent'[x] = parent[x]
      BY <1>1, <1>6, <2>3 DEF StopInv, TreeOK
    <3>2. UnderWay(x)
      BY <1>1, <2>1, <3>1 DEF StopInv, NoneMissed
    <3>3. ~ComesTo(th, x)
      BY <1>1, <1>9 DEF ComesTo, Walking
    <3>. QED  BY <1>9, <3>1, <3>2, <3>3, WayKept
  <2>. QED  BY <2>2, <2>3
<1>. QED  BY <1>8, <1>10, <1>12, <1>13 DEF StopInv

LEMMA StopStep == StopInv /\ [Next]_vars => StopInv'
<1>. SUFFICES ASSUME StopInv, [Next]_vars PROVE StopInv'
  OBVIOUS
<1>1. Numbered'
  BY NumberedStep DEF StopInv, TreeOK
<1>2. ASSUME NEW th \in Threads, ThreadStep(th) PROVE StopInv'
  BY <1>1, <1>2, ReturnStops, VisitStops, WakeStops, SpreadStops, AdoptStops DEF ThreadStep
<1>3. ASSUME NEW th \in Threads, NEW t \in Tokens, NEW why \in {"requested", "deadline"}, Cancel(th, t, why)
      PROVE  StopInv'
  BY <1>1, <1>3, CancelStops
<1>4. ASSUME NEW th \in Threads, NEW t \in Tokens, NEW asked \in Deadlines, MakeChild(th, t, asked)
      PROVE  StopInv'
  BY <1>4, MakeChildStops
<1>5. ASSUME NEW x \in Tasks, \/ TaskStep(x) \/ PollAgain(x) \/ Abandon(x)
                              \/ \E t \in Tokens : Await(x, t)
      PROVE  StopInv'
  <2>1. UNCHANGED <<parent, deadline, children, reason, at, current, pending, handles>>
    BY <1>5 DEF TaskStep, Poll, Register, Recheck, PollAgain, Abandon, Await, treeVars, threadVars
  <2>. QED  BY <1>1, <2>1, StillStops
<1>6. ASSUME NEW t \in Tokens, DropHandle(t) PROVE StopInv'
  <2>1. UNCHANGED <<parent, deadline, children, reason, at, current, pending>> /\ handles' \subseteq handles
    BY <1>6 DEF DropHandle, treeVars, threadVars
  <2>. QED  BY <1>1, <2>1, StillStops
<1>7. ASSUME Tick \/ Finished \/ UNCHANGED vars PROVE StopInv'
  <2>1. UNCHANGED <<parent, deadline, children, reason, at, current, pending, handles>>
    BY <1>7 DEF Tick, Finished, vars, treeVars, threadVars
  <2>. QED  BY <1>1, <2>1, StillStops
<1>. QED  BY <1>2, <1>3, <1>4, <1>5, <1>6, <1>7 DEF Next

LEMMA StopInvHolds == StopInv => StopsGoDown
<1>. SUFFICES ASSUME StopInv PROVE StopsGoDown
  OBVIOUS
<1>1. ASSUME NEW t \in Tokens, reason[t] = "parent"
      PROVE  reason[parent[t]] \in {"requested", "parent"}
  BY <1>1 DEF StopInv, Told, TellsParent
<1>2. ASSUME NEW t \in Tokens, parent[t] # NoToken, now >= deadline[parent[t]]
      PROVE  Reason(t) # "none"
  <2>1. parent[t] \in Tokens /\ deadline[t] <= deadline[parent[t]]
    BY <1>2 DEF StopInv, TreeOK, Created
  <2>2. now \in Nat /\ deadline[t] \in Nat /\ deadline[parent[t]] \in Nat
    BY <2>1, CancellationAssumption DEF StopInv, TreeOK, Numbered, Never
  <2>3. now >= deadline[t]
    BY <1>2, <2>1, <2>2
  <2>. QED  BY <2>3 DEF Reason
<1>3. ASSUME \A th \in Threads : at[th] = "idle", NEW t \in handles,
             parent[t] # NoToken, reason[parent[t]] # "none"
      PROVE  reason[t] # "none"
  <2>1. \A th \in Threads : ~ComesTo(th, t)
    BY <1>3 DEF ComesTo, Walking, StopInv, ThreadsOK
  <2>. QED  BY <1>3, <2>1 DEF StopInv, NoneMissed, UnderWay
<1>. QED  BY <1>1, <1>2, <1>3 DEF StopsGoDown

\* A cancellation and a deadline reach everything below a token, whatever
\* children are made, dropped or cancelled by other threads meanwhile
\* (cancel_tree, child_token): a child that says "parent" has a cancelled
\* parent, an expired token has no live descendant, and when every call has
\* returned no held child of a cancelled token is left without a reason.
THEOREM StopsReachAll == Spec => []StopsGoDown
<1>. QED  BY StopInit, StopStep, StopInvHolds, PTL DEF Spec

=============================================================================
