---------------------------- MODULE Cancellation ----------------------------
(***************************************************************************)
(* The cancellation tokens of plenora-io-model/src/cancellation.rs.        *)
(*                                                                         *)
(* A token keeps an atomic reason, the waiters of the futures that await   *)
(* it and weak references to its children.  Threads cancel tokens and make *)
(* children of them, tasks await them, and the clock passes deadlines;     *)
(* every atomic access and every locked region is a step of its own.       *)
(* A child keeps no reference to its parent: when the last handle of a     *)
(* token is dropped, what is below it is out of reach from above.          *)
(***************************************************************************)
EXTENDS Naturals, Sequences, FiniteSets

CONSTANTS
  NTokens,   (* bound: the tokens are 1 .. NTokens, and 1 is the root      *)
  WaitedTokens, (* bound: as many tokens while there is a future           *)
  Threads, Tasks,
  Horizon,   (* bound: the clock goes from 0 to Horizon                    *)
  Deadlines  (* the deadlines asked for, Horizon + 1 for none              *)

Tokens  == 1 .. NTokens
NoToken == 0
Never   == Horizon + 1     \* no deadline
Reasons == {"requested", "deadline", "parent"}

ASSUME CancellationAssumption ==
  /\ NTokens \in Nat \ {0}
  /\ WaitedTokens \in Tokens
  /\ Horizon \in Nat
  /\ Deadlines \subseteq 0 .. Never

VARIABLES
  now,       (* the PipelineClock the tokens share                         *)
  parent,    (* the token each was made of, NoToken for the root           *)
  deadline,  (* Inner.deadline                                             *)
  reason,    (* Inner.reason                                               *)
  children,  (* Inner.children                                             *)
  waiters,   (* Inner.waiters: the tasks registered                        *)
  handles,   (* the tokens some caller still holds                         *)
  at,        (* where each thread is                                       *)
  current,   (* the token its loop works on, or the child it makes         *)
  making,    (* the child it has not returned yet                          *)
  pending,   (* the stack of cancel_tree                                   *)
  taken,     (* the waiters it took from the list and has not woken        *)
  task,      (* where each future is                                       *)
  awaits,    (* the token it awaits                                        *)
  woken      (* its waker was called                                       *)

treeVars   == <<parent, deadline, children>>
threadVars == <<at, current, making, pending, taken>>
taskVars   == <<task, awaits, woken>>
vars == <<now, treeVars, reason, waiters, handles, threadVars, taskVars>>

Lesser(a, b) == IF a < b THEN a ELSE b

\* CancellationToken::reason: the flag, then the clock.
Reason(t) ==
  IF reason[t] # "none" THEN reason[t]
  ELSE IF now >= deadline[t] THEN "deadline"
  ELSE "none"

\* What the children of a token are told.
Propagated(why) == IF why = "deadline" THEN "deadline" ELSE "parent"

Created   == {t \in Tokens : t = 1 \/ parent[t] # NoToken}
Usable(t) == t \in handles /\ \A th \in Threads : making[th] # t

\* strong_count > 0: a caller or a running cancel_tree holds the token.
Reachable(t) ==
  \/ t \in handles
  \/ \E th \in Threads :
       \/ at[th] \in {"take", "wake", "spread"} /\ current[th] = t
       \/ \E i \in 1 .. Len(pending[th]) : pending[th][i].token = t

\* The tokens of a list of children that are still there, in its order.
Present(list) ==
  LET kept[n \in 0 .. Len(list)] ==
        IF n = 0 THEN << >>
        ELSE IF Reachable(list[n]) THEN Append(kept[n - 1], list[n])
        ELSE kept[n - 1]
  IN  kept[Len(list)]

-----------------------------------------------------------------------------
(* cancel, cancel_due_to_deadline and cancel_tree *)

Goto(th, place) == at' = [at EXCEPT ![th] = place]

Cancel(th, t, why) ==
  /\ at[th] = "idle"
  /\ Usable(t)
  /\ pending' = [pending EXCEPT ![th] = <<[token |-> t, why |-> why]>>]
  /\ Goto(th, "visit")
  /\ UNCHANGED <<now, treeVars, reason, waiters, handles, current, making, taken, taskVars>>

Return(th) ==
  /\ at[th] = "visit"
  /\ pending[th] = << >>
  /\ Goto(th, "idle")
  /\ making' = [making EXCEPT ![th] = NoToken]
  /\ UNCHANGED <<now, treeVars, reason, waiters, handles, current, pending, taken, taskVars>>

\* Mutant: the reason is stored, whatever was there.
VisitStores(th) ==
  LET top == pending[th][Len(pending[th])] IN
  /\ at[th] = "visit"
  /\ pending[th] # << >>
  /\ pending' = [pending EXCEPT ![th] = SubSeq(@, 1, Len(@) - 1)]
  /\ reason' = [reason EXCEPT ![top.token] = top.why]
  /\ current' = [current EXCEPT ![th] = top.token]
  /\ Goto(th, "take")
  /\ UNCHANGED <<now, treeVars, waiters, handles, making, taken, taskVars>>

\* The compare-and-swap from 0: a token that has its reason is left to whoever
\* set it, and what is below it too.
Visit(th) ==
  LET top == pending[th][Len(pending[th])] IN
  /\ at[th] = "visit"
  /\ pending[th] # << >>
  /\ pending' = [pending EXCEPT ![th] = SubSeq(@, 1, Len(@) - 1)]
  /\ IF reason[top.token] # "none" THEN UNCHANGED <<reason, current, at>>
     ELSE /\ reason' = [reason EXCEPT ![top.token] = top.why]
          /\ current' = [current EXCEPT ![th] = top.token]
          /\ Goto(th, "take")
  /\ UNCHANGED <<now, treeVars, waiters, handles, making, taken, taskVars>>

TakeWaiters(th) ==
  /\ at[th] = "take"
  /\ taken' = [taken EXCEPT ![th] = waiters[current[th]]]
  /\ waiters' = [waiters EXCEPT ![current[th]] = {}]
  /\ Goto(th, "wake")
  /\ UNCHANGED <<now, treeVars, reason, handles, current, making, pending, taskVars>>

\* The waker of a future that was dropped meanwhile is not called.
Wake(th) ==
  /\ at[th] = "wake"
  /\ IF taken[th] = {} THEN Goto(th, "spread") /\ UNCHANGED <<taken, woken>>
     ELSE \E x \in taken[th] :
            /\ taken' = [taken EXCEPT ![th] = @ \ {x}]
            /\ woken' = IF task[x] = "dropped" THEN woken ELSE [woken EXCEPT ![x] = TRUE]
            /\ UNCHANGED at
  /\ UNCHANGED <<now, treeVars, reason, waiters, handles, current, making, pending>>
  /\ UNCHANGED <<task, awaits>>

\* The children that are still there are pushed, the last one on top.
Spread(th) ==
  LET present == Present(children[current[th]])
      why     == Propagated(reason[current[th]])
  IN  /\ at[th] = "spread"
      /\ children' = [children EXCEPT ![current[th]] = present]
      /\ pending' = [pending EXCEPT ![th] =
           @ \o [i \in 1 .. Len(present) |-> [token |-> present[i], why |-> why]]]
      /\ current' = [current EXCEPT ![th] = NoToken]
      /\ Goto(th, "visit")
      /\ UNCHANGED <<now, parent, deadline, reason, waiters, handles, making>>
      /\ UNCHANGED <<taken, taskVars>>

-----------------------------------------------------------------------------
(* child_token and its variants *)

\* A child never outlives its parent's deadline.
ChildDeadline(t, asked) == Lesser(deadline[t], asked)

\* The child is made and joins the list of its parent ...
MakeChild(th, t, asked) ==
  LET child == Cardinality(Created) + 1 IN
  /\ at[th] = "idle"
  /\ Usable(t)
  /\ child \in IF \A x \in Tasks : task[x] = "idle" THEN Tokens ELSE 1 .. WaitedTokens
  /\ parent' = [parent EXCEPT ![child] = t]
  /\ deadline' = [deadline EXCEPT ![child] = ChildDeadline(t, asked)]
  /\ children' = [children EXCEPT ![t] = Append(Present(@), child)]
  /\ handles' = handles \cup {child}
  /\ current' = [current EXCEPT ![th] = child]
  /\ making' = [making EXCEPT ![th] = child]
  /\ Goto(th, "adopt")
  /\ UNCHANGED <<now, reason, waiters, pending, taken, taskVars>>

\* Mutant: the parent is not looked at again after the child was listed.
AdoptTrusting(th) ==
  /\ at[th] = "adopt"
  /\ current' = [current EXCEPT ![th] = NoToken]
  /\ Goto(th, "visit")
  /\ UNCHANGED <<now, treeVars, reason, waiters, handles, making, pending>>
  /\ UNCHANGED <<taken, taskVars>>

\* ... and then the parent's reason is read: cancelled by now or before.
Adopt(th) ==
  LET why == Reason(parent[current[th]]) IN
  /\ at[th] = "adopt"
  /\ pending' = IF why = "none" THEN pending
                ELSE [pending EXCEPT ![th] =
                        <<[token |-> current[th], why |-> Propagated(why)]>>]
  /\ current' = [current EXCEPT ![th] = NoToken]
  /\ Goto(th, "visit")
  /\ UNCHANGED <<now, treeVars, reason, waiters, handles, making, taken, taskVars>>

\* The last handle of a token goes away.  A future and a call borrow it.
DropHandle(t) ==
  /\ Usable(t)
  /\ \A th \in Threads : at[th] = "adopt" => parent[current[th]] # t
  /\ \A x \in Tasks : awaits[x] = t => task[x] \in {"idle", "dropped"}
  /\ handles' = handles \ {t}
  /\ UNCHANGED <<now, treeVars, reason, waiters, threadVars, taskVars>>

-----------------------------------------------------------------------------
(* Cancelled: the future *)

Become(x, place) == task' = [task EXCEPT ![x] = place]

Await(x, t) ==
  /\ task[x] = "idle"
  /\ Usable(t)
  /\ Cardinality(Created) <= WaitedTokens
  /\ awaits' = [awaits EXCEPT ![x] = t]
  /\ Become(x, "polled")
  /\ UNCHANGED <<now, treeVars, reason, waiters, handles, threadVars, woken>>

Poll(x) ==
  /\ task[x] = "polled"
  /\ Become(x, IF Reason(awaits[x]) # "none" THEN "ready" ELSE "registering")
  /\ UNCHANGED <<now, treeVars, reason, waiters, handles, threadVars, awaits, woken>>

\* Mutant: the future is suspended as soon as it is registered.
RegisterAndSuspend(x) ==
  /\ task[x] = "registering"
  /\ waiters' = [waiters EXCEPT ![awaits[x]] = @ \cup {x}]
  /\ Become(x, "suspended")
  /\ UNCHANGED <<now, treeVars, reason, handles, threadVars, awaits, woken>>

Register(x) ==
  /\ task[x] = "registering"
  /\ waiters' = [waiters EXCEPT ![awaits[x]] = @ \cup {x}]
  /\ Become(x, "rechecking")
  /\ UNCHANGED <<now, treeVars, reason, handles, threadVars, awaits, woken>>

\* The second look: a cancellation that missed the waiter is seen here.
Recheck(x) ==
  /\ task[x] = "rechecking"
  /\ IF Reason(awaits[x]) = "none" THEN Become(x, "suspended") /\ UNCHANGED waiters
     ELSE /\ Become(x, "ready")
          /\ waiters' = [waiters EXCEPT ![awaits[x]] = @ \ {x}]
  /\ UNCHANGED <<now, treeVars, reason, handles, threadVars, awaits, woken>>

\* The executor polls the future again, because it was woken or for another
\* reason of its own.
PollAgain(x) ==
  /\ task[x] = "suspended"
  /\ Become(x, "polled")
  /\ woken' = [woken EXCEPT ![x] = FALSE]
  /\ UNCHANGED <<now, treeVars, reason, waiters, handles, threadVars, awaits>>

Abandon(x) ==
  /\ task[x] = "suspended"
  /\ Become(x, "dropped")
  /\ waiters' = [waiters EXCEPT ![awaits[x]] = @ \ {x}]
  /\ UNCHANGED <<now, treeVars, reason, handles, threadVars, awaits, woken>>

-----------------------------------------------------------------------------
Tick ==
  /\ now < Horizon
  /\ now' = now + 1
  /\ UNCHANGED <<treeVars, reason, waiters, handles, threadVars, taskVars>>

Init ==
  /\ now = 0
  /\ parent = [t \in Tokens |-> NoToken]
  /\ \E first \in Deadlines : deadline = [t \in Tokens |-> IF t = 1 THEN first ELSE Never]
  /\ reason = [t \in Tokens |-> "none"]
  /\ children = [t \in Tokens |-> << >>]
  /\ waiters = [t \in Tokens |-> {}]
  /\ handles = {1}
  /\ at = [th \in Threads |-> "idle"]
  /\ current = [th \in Threads |-> NoToken]
  /\ making = [th \in Threads |-> NoToken]
  /\ pending = [th \in Threads |-> << >>]
  /\ taken = [th \in Threads |-> {}]
  /\ task = [x \in Tasks |-> "idle"]
  /\ awaits = [x \in Tasks |-> NoToken]
  /\ woken = [x \in Tasks |-> FALSE]

\* The steps of a running call, of a thread and of a task.
ThreadStep(th) ==
  Return(th) \/ Visit(th) \/ TakeWaiters(th) \/ Wake(th) \/ Spread(th) \/ Adopt(th)

TaskStep(x) == Poll(x) \/ Register(x) \/ Recheck(x)

\* Nothing is left to call: every handle was dropped.
Finished ==
  /\ handles = {}
  /\ \A th \in Threads : at[th] = "idle"
  /\ now = Horizon
  /\ UNCHANGED vars

Next ==
  \/ \E th \in Threads : ThreadStep(th)
  \/ \E x \in Tasks : TaskStep(x) \/ PollAgain(x) \/ Abandon(x)
  \/ \E th \in Threads, t \in Tokens, why \in {"requested", "deadline"} : Cancel(th, t, why)
  \/ \E th \in Threads, t \in Tokens, asked \in Deadlines : MakeChild(th, t, asked)
  \/ \E x \in Tasks, t \in Tokens : Await(x, t)
  \/ \E t \in Tokens : DropHandle(t)
  \/ Tick
  \/ Finished

Spec == Init /\ [][Next]_vars

-----------------------------------------------------------------------------
(* Properties *)

TypeOK ==
  /\ now \in 0 .. Horizon
  /\ parent \in [Tokens -> Tokens \cup {NoToken}]
  /\ deadline \in [Tokens -> 0 .. Never]
  /\ reason \in [Tokens -> Reasons \cup {"none"}]
  /\ children \in [Tokens -> Seq(Tokens)]
  /\ waiters \in [Tokens -> SUBSET Tasks]
  /\ handles \subseteq Tokens
  /\ at \in [Threads -> {"idle", "visit", "take", "wake", "spread", "adopt"}]
  /\ current \in [Threads -> Tokens \cup {NoToken}]
  /\ making \in [Threads -> Tokens \cup {NoToken}]
  /\ pending \in [Threads -> Seq([token : Tokens, why : Reasons])]
  /\ taken \in [Threads -> SUBSET Tasks]
  /\ task \in [Tasks -> {"idle", "polled", "registering", "rechecking", "suspended",
                         "ready", "dropped"}]
  /\ awaits \in [Tasks -> Tokens \cup {NoToken}]
  /\ woken \in [Tasks -> BOOLEAN]

\* Somebody has set the reason of the token and has not woken x yet.
WakeUnderWay(x) ==
  \E th \in Threads :
    \/ at[th] = "take" /\ current[th] = awaits[x] /\ x \in waiters[awaits[x]]
    \/ x \in taken[th]

\* A suspended future of a cancelled token has been woken or is about to be:
\* whatever the order of poll, registration and cancellation, none sleeps on.
NoLostWakeup ==
  \A x \in Tasks :
    task[x] = "suspended" /\ reason[awaits[x]] # "none" => woken[x] \/ WakeUnderWay(x)

\* A child told of its parent has a parent that somebody cancelled: a deadline
\* of the parent reaches the child as a deadline (timeout, not exit 130).  When
\* a token has expired everything made of it has stopped too, without anybody
\* cancelling it.  And once the calls under way are over, no child that is
\* still there was missed by a cancellation: not one that was being made while
\* the parent's list was walked, nor one below a token that another thread was
\* cancelling.
StopsGoDown ==
  /\ \A t \in Tokens :
       /\ reason[t] = "parent" => reason[parent[t]] \in {"requested", "parent"}
       /\ parent[t] # NoToken /\ now >= deadline[parent[t]] => Reason(t) # "none"
  /\ (\A th \in Threads : at[th] = "idle") =>
       \A t \in handles :
         parent[t] # NoToken /\ reason[parent[t]] # "none" => reason[t] # "none"

\* What a token answers changes at most once after its first stop: from the
\* Deadline of its clock to the first reason a cancellation stores, which no
\* later or racing one replaces.  A stop is never withdrawn.
FirstReasonStays ==
  [][\A t \in Tokens :
       /\ reason[t] # "none" => reason'[t] = reason[t]
       /\ Reason(t) # "none" =>
            \/ Reason(t)' = Reason(t)
            \/ Reason(t) = "deadline" /\ reason[t] = "none" /\ reason'[t] # "none"]_vars

=============================================================================
