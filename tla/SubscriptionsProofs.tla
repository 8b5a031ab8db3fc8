------------------------ MODULE SubscriptionsProofs ------------------------
(***************************************************************************)
(* Theorems about Subscriptions and LiveViews, for every set of servers    *)
(* and of pages and every bound.                                           *)
(*                                                                         *)
(* As long as calls keep their order and the page is not reloaded (tidy),  *)
(* the last leaver stops the poller.  This is not inductive alone: what is *)
(* needed is that the calls in flight alternate between subscribe and      *)
(* unsubscribe, that the oldest one is the opposite of what the backend    *)
(* has, and that the newest one is what the store wants (Linked).          *)
(*                                                                         *)
(* In every behaviour a held server is polled.  This one follows from a    *)
(* balance of refcounts and calls in flight (NeverUndercounts).            *)
(*                                                                         *)
(* The views use the store as Subscriptions allows (ViewSpec => SubSpec),  *)
(* so that both hold with them.  That its counts are the views on screen   *)
(* needs that the only views on screen are the panel and the page          *)
(* (ViewInv), and then that a step takes from the count of a server what   *)
(* it takes from the screen (Moved).                                       *)
(***************************************************************************)
EXTENDS LiveViews, SequenceTheorems, FiniteSetTheorems, FunctionTheorems,
        TLAPS

LEMMA ReleasedNat ==
  ASSUME NEW c \in Nat, NEW n \in Nat
  PROVE  Released(c, n) \in Nat /\ Released(c, n) <= c
BY DEF Released

LEMMA EmittedType ==
  ASSUME NEW c \in Nat, NEW n \in Nat, NEW m \in Nat,
         NEW w \in Seq(Commands)
  PROVE  Emitted(c, n, m, w) \in Seq(Commands)
BY DEF Emitted, Emit, Commands

\* Removing a position of a sequence leaves a sequence over the same set.
LEMMA RemoveAtType ==
  ASSUME NEW S, NEW w \in Seq(S), NEW i \in DOMAIN w
  PROVE  RemoveAt(w, i) \in Seq(S)
<1>1. i \in 1..Len(w)
  OBVIOUS
<1>2. SubSeq(w, 1, i-1) \in Seq(S) /\ SubSeq(w, i+1, Len(w)) \in Seq(S)
  BY <1>1
<1>. QED
  BY <1>2 DEF RemoveAt

LEMMA SubTypeInductive ==
  ASSUME SubTypeOK, [SubNext]_subVars
  PROVE  SubTypeOK'
<1>. USE DEF SubTypeOK
<1>1. CASE SomeTask
  <2>1. PICK lost, gained \in [Servers -> 0..MaxHolders] : Task(lost, gained)
    BY <1>1 DEF SomeTask
  <2>2. \A s \in Servers : lost[s] \in Nat /\ gained[s] \in Nat
    BY <2>1, BoundsAssumption
  <2>3. subscriptions' \in [Servers -> Nat]
    <3>1. \A s \in Servers : Released(subscriptions[s], lost[s]) \in Nat
      BY <2>2, ReleasedNat
    <3>. QED
      BY <2>1, <2>2, <3>1 DEF Task
  <2>4. wire' \in [Servers -> Seq(Commands)]
    BY <2>1, <2>2, EmittedType DEF Task
  <2>. QED
    BY <2>1, <2>3, <2>4 DEF Task
<1>2. CASE Reload
  <2>1. tidy' \in BOOLEAN
    BY <1>2, Zenon DEF Reload
  <2>2. /\ subscriptions' = NoCalls
        /\ reloads' = reloads + 1
        /\ UNCHANGED <<wire, pollers>>
    BY <1>2 DEF Reload
  <2>. QED
    BY <2>1, <2>2 DEF NoCalls
<1>3. ASSUME NEW s \in Servers, NEW i \in DOMAIN wire[s], rt_subscribe(s, i)
      PROVE  SubTypeOK'
  BY <1>3, RemoveAtType DEF rt_subscribe, Execute
<1>4. ASSUME NEW s \in Servers, NEW i \in DOMAIN wire[s], rt_unsubscribe(s, i)
      PROVE  SubTypeOK'
  BY <1>4, RemoveAtType DEF rt_unsubscribe, Execute, AfterUnsubscribe
<1>5. CASE UNCHANGED subVars
  BY <1>5 DEF subVars
<1>. QED
  BY <1>1, <1>2, <1>3, <1>4, <1>5 DEF SubNext, Backend

\* The counts of the store and of the backend never go negative.
THEOREM SubTypeCorrect == SubSpec => []SubTypeOK
<1>1. SubInit => SubTypeOK
  BY DEF SubInit, SubTypeOK, NoCalls
<1>2. SubTypeOK /\ [SubNext]_subVars => SubTypeOK'
  BY SubTypeInductive
<1>. QED
  BY <1>1, <1>2, PTL DEF SubSpec

-----------------------------------------------------------------------------
(* While tidy, the pollers follow the store exactly. *)

\* Emitting the call that announces a change of mind keeps the calls linked.
LEMMA EmitLinked ==
  ASSUME NEW w \in Seq(Commands), NEW on \in BOOLEAN, NEW want \in BOOLEAN,
         NEW c \in Commands, Linked(w, on, want),
         c = "subscribe" <=> ~want
  PROVE  Append(w, c) \in Seq(Commands) /\ Linked(Append(w, c), on, ~want)
<1>. DEFINE a == Append(w, c)
<1>1. /\ a \in Seq(Commands)
      /\ a # <<>>
      /\ Len(a) = Len(w) + 1
      /\ Len(w) \in Nat
      /\ \A i \in 1..Len(w) : a[i] = w[i]
      /\ a[Len(w) + 1] = c
  BY AppendProperties
<1>. HIDE DEF a
<1>2. a[1] = "subscribe" <=> ~on
  <2>1. CASE w = <<>>
    BY <2>1, <1>1 DEF Linked
  <2>2. CASE w # <<>>
    <3>1. Len(w) >= 1
      BY <2>2
    <3>. QED
      BY <2>2, <3>1, <1>1 DEF Linked
  <2>. QED
    BY <2>1, <2>2
<1>3. a[Len(a)] = "subscribe" <=> ~want
  BY <1>1
<1>4. ASSUME NEW i \in 1..(Len(a) - 1)
      PROVE  a[i] # a[i+1]
  <2>1. CASE i < Len(w)
    BY <2>1, <1>1 DEF Linked
  <2>2. CASE i = Len(w)
    <3>1. w # <<>> /\ w[Len(w)] \in Commands
      BY <2>2, <1>1
    <3>2. w[Len(w)] = "subscribe" <=> want
      BY <3>1 DEF Linked
    <3>3. c # w[Len(w)]
      BY <3>1, <3>2 DEF Commands
    <3>. QED
      BY <2>2, <3>3, <1>1
  <2>. QED
    BY <2>1, <2>2, <1>1
<1>5. Linked(a, on, ~want)
  BY <1>1, <1>2, <1>3, <1>4 DEF Linked
<1>. QED
  BY <1>1, <1>5 DEF a

\* What one JavaScript task emits for one server keeps the calls linked.
LEMMA EmittedLinked ==
  ASSUME NEW c \in Nat, NEW n \in Nat, NEW m \in Nat,
         NEW w \in Seq(Commands), NEW on \in BOOLEAN, Linked(w, on, c > 0)
  PROVE  Linked(Emitted(c, n, m, w), on, Released(c, n) + m > 0)
<1>. DEFINE mid == Released(c, n)
<1>. DEFINE first == Emit(w, c > 0 /\ mid = 0, "unsubscribe")
<1>0. mid \in Nat /\ mid <= c
  BY ReleasedNat
<1>1. first \in Seq(Commands) /\ Linked(first, on, mid > 0)
  <2>1. CASE c > 0 /\ mid = 0
    <3>1. first = Append(w, "unsubscribe")
      BY <2>1 DEF Emit
    <3>2. "unsubscribe" \in Commands /\ ("unsubscribe" = "subscribe" <=> ~(c > 0))
      BY <2>1 DEF Commands
    <3>3. /\ Append(w, "unsubscribe") \in Seq(Commands)
          /\ Linked(Append(w, "unsubscribe"), on, ~(c > 0))
      <4>. DEFINE want == c > 0
      <4>1. want \in BOOLEAN /\ Linked(w, on, want)
        OBVIOUS
      <4>2. "unsubscribe" = "subscribe" <=> ~want
        BY <3>2
      <4>. HIDE DEF want
      <4>3. /\ Append(w, "unsubscribe") \in Seq(Commands)
            /\ Linked(Append(w, "unsubscribe"), on, ~want)
        BY <3>2, <4>1, <4>2, EmitLinked
      <4>. QED
        BY <4>3 DEF want
    <3>4. ~(c > 0) <=> mid > 0
      BY <2>1
    <3>. QED
      BY <3>1, <3>3, <3>4 DEF Linked
  <2>2. CASE ~(c > 0 /\ mid = 0)
    <3>1. first = w
      BY <2>2 DEF Emit
    <3>2. c > 0 <=> mid > 0
      BY <2>2, <1>0
    <3>. QED
      BY <3>1, <3>2 DEF Linked
  <2>. QED
    BY <2>1, <2>2
<1>. HIDE DEF first, mid
<1>2. Linked(Emit(first, mid = 0 /\ m > 0, "subscribe"), on, mid + m > 0)
  <2>1. CASE mid = 0 /\ m > 0
    <3>. DEFINE want == mid > 0
    <3>1. want \in BOOLEAN /\ Linked(first, on, want) /\ ~want
      BY <1>1, <2>1
    <3>2. "subscribe" \in Commands
      BY DEF Commands
    <3>. HIDE DEF want
    <3>3. Linked(Append(first, "subscribe"), on, ~want)
      BY <1>1, <3>1, <3>2, EmitLinked
    <3>4. ~want <=> mid + m > 0
      BY <2>1, <3>1, <1>0
    <3>. QED
      BY <2>1, <3>3, <3>4 DEF Emit, Linked
  <2>2. CASE ~(mid = 0 /\ m > 0)
    <3>1. mid > 0 <=> mid + m > 0
      BY <2>2, <1>0
    <3>. QED
      BY <2>2, <3>1, <1>1 DEF Emit, Linked
  <2>. QED
    BY <2>1, <2>2
<1>. QED
  BY <1>2 DEF Emitted, first, mid

\* Executing the oldest call flips the backend and keeps the rest linked.
LEMMA ExecuteLinked ==
  ASSUME NEW w \in Seq(Commands), NEW on \in BOOLEAN, NEW want \in BOOLEAN,
         1 \in DOMAIN w, Linked(w, on, want)
  PROVE  Linked(RemoveAt(w, 1), ~on, want)
<1>. DEFINE r == RemoveAt(w, 1)
<1>1. w # <<>> /\ Len(w) \in Nat /\ Len(w) >= 1
  OBVIOUS
<1>2. r = Tail(w)
  <2>1. SubSeq(w, 1, 0) = <<>>
    OBVIOUS
  <2>2. SubSeq(w, 2, Len(w)) = Tail(w)
    BY <1>1, TailIsSubSeq
  <2>3. Tail(w) \in Seq(Commands)
    BY <1>1
  <2>. QED
    BY <2>1, <2>2, <2>3, ConcatEmptySeq DEF RemoveAt
<1>3. /\ r \in Seq(Commands)
      /\ Len(r) = Len(w) - 1
      /\ \A i \in 1..Len(r) : r[i] = w[i+1]
  BY <1>1, <1>2, HeadTailProperties
<1>4. \A i \in 1..Len(w) : w[i] \in Commands
  OBVIOUS
<1>. HIDE DEF r
<1>5. r = <<>> => (~on <=> want)
  <2>. SUFFICES ASSUME r = <<>> PROVE ~on <=> want
    OBVIOUS
  <2>1. Len(w) = 1
    BY <1>1, <1>3
  <2>. QED
    BY <2>1, <1>1 DEF Linked
<1>6. r # <<>> => (r[1] = "subscribe" <=> on)
  <2>. SUFFICES ASSUME r # <<>> PROVE r[1] = "subscribe" <=> on
    OBVIOUS
  <2>1. Len(r) >= 1
    BY <1>3
  <2>2. r[1] = w[2] /\ w[1] # w[2] /\ w[1] \in Commands /\ w[2] \in Commands
    BY <2>1, <1>1, <1>3, <1>4 DEF Linked
  <2>. QED
    BY <2>2, <1>1 DEF Linked, Commands
<1>7. r # <<>> => (r[Len(r)] = "subscribe" <=> want)
  <2>. SUFFICES ASSUME r # <<>> PROVE r[Len(r)] = "subscribe" <=> want
    OBVIOUS
  <2>1. Len(r) >= 1
    BY <1>3
  <2>2. r[Len(r)] = w[Len(w)]
    BY <2>1, <1>1, <1>3
  <2>. QED
    BY <2>2, <1>1 DEF Linked
<1>8. \A i \in 1..(Len(r) - 1) : r[i] # r[i+1]
  BY <1>1, <1>3 DEF Linked
<1>9. Linked(r, ~on, want)
  BY <1>5, <1>6, <1>7, <1>8 DEF Linked
<1>. QED
  BY <1>9 DEF r

LEMMA InStepInductive ==
  ASSUME InStep, SubTypeOK, [SubNext]_subVars
  PROVE  InStep'
<1>. SUFFICES ASSUME tidy' PROVE InStep'
  BY DEF InStep
<1>0. tidy
  BY DEF SubNext, SomeTask, Task, Reload, Backend, rt_subscribe, rt_unsubscribe,
         Execute, subVars
<1>. USE <1>0 DEF InStep, SubTypeOK, Held
<1>1. CASE SomeTask
  <2>1. PICK lost, gained \in [Servers -> 0..MaxHolders] : Task(lost, gained)
    BY <1>1 DEF SomeTask
  <2>2. ASSUME NEW s \in Servers
        PROVE  Linked(wire'[s], pollers'[s] = 1, subscriptions'[s] > 0)
    <3>. DEFINE on == pollers[s] = 1
    <3>1. /\ subscriptions[s] \in Nat /\ lost[s] \in Nat /\ gained[s] \in Nat
          /\ wire[s] \in Seq(Commands)
          /\ on \in BOOLEAN
          /\ Linked(wire[s], on, subscriptions[s] > 0)
      BY <2>1, BoundsAssumption
    <3>. HIDE DEF on
    <3>2. Linked(Emitted(subscriptions[s], lost[s], gained[s], wire[s]), on,
                 Released(subscriptions[s], lost[s]) + gained[s] > 0)
      BY <3>1, EmittedLinked
    <3>3. Linked(wire'[s], on, subscriptions'[s] > 0)
      BY <3>2, <2>1 DEF Task
    <3>. QED
      BY <3>3, <2>1 DEF on, Task
  <2>. QED
    BY <2>1, <2>2 DEF Task
<1>2. CASE Reload
  BY <1>2 DEF Reload
<1>3. ASSUME NEW s \in Servers, NEW i \in DOMAIN wire[s],
             rt_subscribe(s, i) \/ rt_unsubscribe(s, i)
      PROVE  InStep'
  <2>1. i = 1
    BY <1>3 DEF rt_subscribe, rt_unsubscribe, Execute
  <2>2. /\ wire' = [wire EXCEPT ![s] = RemoveAt(wire[s], 1)]
        /\ UNCHANGED <<subscriptions, reloads>>
    BY <1>3, <2>1 DEF rt_subscribe, rt_unsubscribe, Execute
  <2>3. /\ pollers[s] \in {0, 1}
        /\ wire[s][1] = "subscribe" <=> ~(pollers[s] = 1)
    BY <2>1 DEF Linked
  <2>4. /\ pollers' = [pollers EXCEPT ![s] = 1 - pollers[s]]
    <3>1. CASE rt_subscribe(s, i)
      <4>1. pollers[s] = 0
        BY <3>1, <2>1, <2>3 DEF rt_subscribe, Execute
      <4>2. pollers' = [pollers EXCEPT ![s] = pollers[s] + 1]
        BY <3>1 DEF rt_subscribe
      <4>. QED
        BY <4>1, <4>2
    <3>2. CASE rt_unsubscribe(s, i)
      <4>1. pollers[s] = 1
        BY <3>2, <2>1, <2>3 DEF rt_unsubscribe, Execute
      <4>2. pollers' = [pollers EXCEPT ![s] = AfterUnsubscribe(pollers[s])]
        BY <3>2 DEF rt_unsubscribe
      <4>. QED
        BY <4>1, <4>2 DEF AfterUnsubscribe
    <3>. QED
      BY <3>1, <3>2, <1>3
  <2>5. Linked(RemoveAt(wire[s], 1), pollers'[s] = 1, Held(s))
    <3>. DEFINE on == pollers[s] = 1
    <3>. DEFINE want == Held(s)
    <3>1. /\ wire[s] \in Seq(Commands) /\ on \in BOOLEAN /\ want \in BOOLEAN
          /\ 1 \in DOMAIN wire[s] /\ Linked(wire[s], on, want)
      BY <2>1
    <3>2. pollers'[s] = 1 <=> ~on
      BY <2>3, <2>4
    <3>. HIDE DEF on, want
    <3>3. Linked(RemoveAt(wire[s], 1), ~on, want)
      BY <3>1, ExecuteLinked
    <3>4. Linked(RemoveAt(wire[s], 1), pollers'[s] = 1, want)
      BY <3>2, <3>3 DEF Linked
    <3>. QED
      BY <3>4 DEF want
  <2>6. ASSUME NEW t \in Servers
        PROVE  /\ pollers'[t] \in {0, 1}
               /\ Linked(wire'[t], pollers'[t] = 1, subscriptions'[t] > 0)
    <3>1. CASE t = s
      BY <3>1, <2>2, <2>3, <2>4, <2>5
    <3>2. CASE t # s
      BY <3>2, <2>2, <2>4
    <3>. QED
      BY <3>1, <3>2
  <2>. QED
    BY <2>2, <2>6
<1>4. CASE UNCHANGED subVars
  BY <1>4 DEF subVars
<1>. QED
  BY <1>1, <1>2, <1>3, <1>4 DEF SubNext, Backend

\* Until a call is executed out of turn or the page is reloaded, the backend
\* (realtime.rs) is exactly as many calls behind the store as are in flight.
THEOREM InStepInvariant == SubSpec => []InStep
<1>1. SubInit => InStep
  BY DEF SubInit, InStep, SubTypeOK, NoCalls, Linked, Held
<1>2. InStep /\ SubTypeOK /\ [SubNext]_subVars => InStep'
  BY InStepInductive
<1>. QED
  BY <1>1, <1>2, SubTypeCorrect, PTL DEF SubSpec

\* realtime.rs, header: the last subscriber to leave cancels the poller.  It
\* does while every call has been executed in its turn.
THEOREM LastLeaverStops == SubSpec => [](tidy => LastLeaverStopsPoller)
<1>1. InStep => (tidy => LastLeaverStopsPoller)
  BY DEF InStep, LastLeaverStopsPoller, Linked, Idle
<1>. QED
  BY <1>1, InStepInvariant, PTL

-----------------------------------------------------------------------------
(* In every behaviour, the backend never counts less than the page holds. *)

Where(w, command) == {i \in DOMAIN w : w[i] = command}
CallsIn(w, command) == Cardinality(Where(w, command))

LEMMA CallsInNat ==
  ASSUME NEW w \in Seq(Commands), NEW command
  PROVE  IsFiniteSet(Where(w, command)) /\ CallsIn(w, command) \in Nat
<1>1. DOMAIN w = 1..Len(w) /\ Len(w) \in Nat
  OBVIOUS
<1>2. IsFiniteSet(1..Len(w))
  BY <1>1, FS_Interval
<1>3. Where(w, command) \in SUBSET (1..Len(w))
  BY <1>1 DEF Where
<1>. QED
  BY <1>2, <1>3, FS_Subset, FS_CardinalityType DEF CallsIn

LEMMA CallsInAppend ==
  ASSUME NEW w \in Seq(Commands), NEW c \in Commands, NEW command
  PROVE  CallsIn(Append(w, c), command)
           = CallsIn(w, command) + (IF c = command THEN 1 ELSE 0)
<1>. DEFINE a == Append(w, c)
<1>1. /\ DOMAIN w = 1..Len(w) /\ Len(w) \in Nat
      /\ DOMAIN a = 1..(Len(w) + 1)
      /\ \A i \in 1..Len(w) : a[i] = w[i]
      /\ a[Len(w) + 1] = c
  BY AppendProperties
<1>2. IsFiniteSet(Where(w, command)) /\ CallsIn(w, command) \in Nat
  BY CallsInNat
<1>. HIDE DEF a
<1>3. CASE c = command
  <2>1. Where(a, command) = Where(w, command) \cup {Len(w) + 1}
    BY <1>1, <1>3 DEF Where
  <2>2. Len(w) + 1 \notin Where(w, command)
    BY <1>1 DEF Where
  <2>3. Cardinality(Where(w, command) \cup {Len(w) + 1})
          = Cardinality(Where(w, command)) + 1
    BY <1>2, <2>2, FS_AddElement
  <2>. QED
    BY <1>3, <2>1, <2>3 DEF CallsIn, a
<1>4. CASE c # command
  <2>1. Where(a, command) = Where(w, command)
    BY <1>1, <1>4 DEF Where
  <2>. QED
    BY <1>2, <1>4, <2>1 DEF CallsIn, a
<1>. QED
  BY <1>3, <1>4

\* Executing a call takes it, and no other, out of flight.
LEMMA CallsInRemoved ==
  ASSUME NEW w \in Seq(Commands), NEW k \in DOMAIN w, NEW command
  PROVE  CallsIn(w, command)
           = CallsIn(RemoveAt(w, k), command) + (IF w[k] = command THEN 1 ELSE 0)
<1>. DEFINE r == RemoveAt(w, k)
            S == Where(r, command)
            T == Where(w, command) \ {k}
            f == [i \in S |-> IF i < k THEN i ELSE i + 1]
<1>1. DOMAIN w = 1..Len(w) /\ Len(w) \in Nat /\ k \in 1..Len(w)
  OBVIOUS
<1>2. /\ r \in Seq(Commands)
      /\ DOMAIN r = 1..(Len(w) - 1)
      /\ \A i \in 1..(Len(w) - 1) : r[i] = IF i < k THEN w[i] ELSE w[i + 1]
  <2>. DEFINE u == SubSeq(w, 1, k - 1)
              v == SubSeq(w, k + 1, Len(w))
  <2>1. /\ u \in Seq(Commands) /\ Len(u) = k - 1
        /\ \A i \in 1..(k - 1) : u[i] = w[i]
    BY <1>1
  <2>2. /\ v \in Seq(Commands) /\ Len(v) = Len(w) - k
        /\ \A i \in 1..(Len(w) - k) : v[i] = w[k + i]
    BY <1>1
  <2>3. r = u \o v
    BY DEF RemoveAt
  <2>. HIDE DEF u, v, r
  <2>4. r \in Seq(Commands) /\ Len(r) = Len(w) - 1
    <3>1. r \in Seq(Commands) /\ Len(r) = Len(u) + Len(v)
      <4>1. u \in Seq(Commands) /\ v \in Seq(Commands)
        BY <2>1, <2>2
      <4>2. u \o v \in Seq(Commands) /\ Len(u \o v) = Len(u) + Len(v)
        BY <4>1, ConcatProperties
      <4>. QED
        BY <2>3, <4>2
    <3>2. (k - 1) + (Len(w) - k) = Len(w) - 1
      BY <1>1
    <3>. QED
      BY <2>1, <2>2, <3>1, <3>2
  <2>5. ASSUME NEW i \in 1..(Len(w) - 1)
        PROVE  r[i] = IF i < k THEN w[i] ELSE w[i + 1]
    <3>1. CASE i < k
      <4>1. i \in 1..(k - 1) /\ i \in 1..(Len(u) + Len(v))
        BY <1>1, <2>1, <2>2, <3>1
      <4>2. r[i] = u[i]
        BY <1>1, <2>1, <2>2, <2>3, <4>1
      <4>. QED
        BY <2>1, <3>1, <4>1, <4>2
    <3>2. CASE ~(i < k)
      <4>1. i - Len(u) = i - k + 1 /\ i - k + 1 \in 1..(Len(w) - k)
        BY <1>1, <2>1, <3>2
      <4>2. r[i] = v[i - k + 1]
        BY <1>1, <2>1, <2>2, <2>3, <3>2, <4>1
      <4>3. v[i - k + 1] = w[k + (i - k + 1)] /\ k + (i - k + 1) = i + 1
        BY <1>1, <2>2, <4>1
      <4>. QED
        BY <3>2, <4>2, <4>3
    <3>. QED
      BY <3>1, <3>2
  <2>6. DOMAIN r = 1..(Len(w) - 1)
    BY <2>4
  <2>. QED
    BY <2>4, <2>5, <2>6
<1>3. IsFiniteSet(S) /\ Cardinality(S) \in Nat
  BY <1>2, CallsInNat DEF CallsIn
<1>. HIDE DEF r
<1>4. f \in Bijection(S, T)
  <2>1. \A i \in S : f[i] \in T
    BY <1>1, <1>2 DEF Where
  <2>2. \A i, j \in S : f[i] = f[j] => i = j
    BY <1>1, <1>2 DEF Where
  <2>3. ASSUME NEW t \in T PROVE \E i \in S : f[i] = t
    <3>1. CASE t < k
      <4>1. t \in S /\ f[t] = t
        BY <1>1, <1>2, <3>1 DEF Where
      <4>. QED
        BY <4>1
    <3>2. CASE t > k
      <4>1. t - 1 \in S /\ f[t - 1] = t
        BY <1>1, <1>2, <3>2 DEF Where
      <4>. QED
        BY <4>1
    <3>. QED
      BY <1>1, <3>1, <3>2 DEF Where
  <2>4. f \in [S -> T]
    BY <2>1
  <2>. HIDE DEF f, S, T
  <2>. QED
    BY <2>2, <2>3, <2>4, Fun_IsBij
<1>5. Cardinality(T) = Cardinality(S)
  <2>. HIDE DEF f, S, T
  <2>. QED
    BY <1>3, <1>4, FS_Bijection DEF ExistsBijection
<1>6. Cardinality(Where(w, command))
        = Cardinality(T) + (IF w[k] = command THEN 1 ELSE 0)
  <2>1. IsFiniteSet(Where(w, command)) /\ Cardinality(Where(w, command)) \in Nat
    BY CallsInNat DEF CallsIn
  <2>2. k \in Where(w, command) <=> w[k] = command
    BY DEF Where
  <2>3. Cardinality(T) = IF k \in Where(w, command)
                         THEN Cardinality(Where(w, command)) - 1
                         ELSE Cardinality(Where(w, command))
    BY <2>1, FS_RemoveElement
  <2>. HIDE DEF T
  <2>. QED
    BY <2>1, <2>2, <2>3
<1>. QED
  BY <1>5, <1>6 DEF CallsIn, r

\* What one JavaScript task emits for one server changes the balance of the
\* calls in flight by no more than the demand.
LEMMA EmittedBalance ==
  ASSUME NEW c \in Nat, NEW n \in Nat, NEW m \in Nat, NEW w \in Seq(Commands)
  PROVE  LET e == Emitted(c, n, m, w) IN
         CallsIn(e, "subscribe") - CallsIn(e, "unsubscribe")
           - (IF Released(c, n) + m > 0 THEN 1 ELSE 0)
         = CallsIn(w, "subscribe") - CallsIn(w, "unsubscribe")
             - (IF c > 0 THEN 1 ELSE 0)
<1>. DEFINE mid == Released(c, n)
            first == Emit(w, c > 0 /\ mid = 0, "unsubscribe")
            second == Emit(first, mid = 0 /\ m > 0, "subscribe")
            Balance(v) == CallsIn(v, "subscribe") - CallsIn(v, "unsubscribe")
<1>1. mid \in Nat /\ mid <= c
  BY ReleasedNat
<1>2. "subscribe" \in Commands /\ "unsubscribe" \in Commands
  BY DEF Commands
<1>3. first \in Seq(Commands)
  BY <1>2 DEF Emit
<1>4. /\ CallsIn(w, "subscribe") \in Nat /\ CallsIn(w, "unsubscribe") \in Nat
      /\ CallsIn(first, "subscribe") \in Nat /\ CallsIn(first, "unsubscribe") \in Nat
  BY <1>3, CallsInNat
<1>5. Balance(first) = Balance(w) - (IF c > 0 /\ mid = 0 THEN 1 ELSE 0)
  <2>1. /\ CallsIn(Append(w, "unsubscribe"), "unsubscribe")
             = CallsIn(w, "unsubscribe") + 1
        /\ CallsIn(Append(w, "unsubscribe"), "subscribe") = CallsIn(w, "subscribe")
    BY <1>2, <1>4, CallsInAppend
  <2>. QED
    BY <1>4, <2>1 DEF Emit
<1>6. Balance(second) = Balance(first) + (IF mid = 0 /\ m > 0 THEN 1 ELSE 0)
  <2>. HIDE DEF first, mid
  <2>1. /\ CallsIn(Append(first, "subscribe"), "subscribe")
             = CallsIn(first, "subscribe") + 1
        /\ CallsIn(Append(first, "subscribe"), "unsubscribe")
             = CallsIn(first, "unsubscribe")
    BY <1>2, <1>3, <1>4, CallsInAppend
  <2>. QED
    BY <1>4, <2>1 DEF Emit
<1>7. Emitted(c, n, m, w) = second
  BY DEF Emitted
<1>8. Balance(w) \in Int /\ Balance(first) \in Int
  BY <1>4
<1>. HIDE DEF mid, first, second, Balance
<1>9. Balance(second) - (IF mid + m > 0 THEN 1 ELSE 0)
        = Balance(w) - (IF c > 0 THEN 1 ELSE 0)
  BY <1>1, <1>5, <1>6, <1>8
<1>. QED
  BY <1>7, <1>9 DEF Balance, mid

NoLess(s) ==
  pollers[s] + CallsIn(wire[s], "subscribe")
    >= CallsIn(wire[s], "unsubscribe") + (IF Held(s) THEN 1 ELSE 0)

LEMMA NoLessInductive ==
  ASSUME SubTypeOK, [SubNext]_subVars, NEW s \in Servers, NoLess(s)
  PROVE  NoLess(s)'
<1>. USE DEF SubTypeOK, NoLess, Held
<1>0. /\ pollers[s] \in Nat /\ subscriptions[s] \in Nat
      /\ wire[s] \in Seq(Commands)
      /\ CallsIn(wire[s], "subscribe") \in Nat
      /\ CallsIn(wire[s], "unsubscribe") \in Nat
  BY CallsInNat
<1>1. CASE SomeTask
  <2>1. PICK lost, gained \in [Servers -> 0..MaxHolders] : Task(lost, gained)
    BY <1>1 DEF SomeTask
  <2>2. lost[s] \in Nat /\ gained[s] \in Nat
    BY <2>1, BoundsAssumption
  <2>. DEFINE e == Emitted(subscriptions[s], lost[s], gained[s], wire[s])
              rest == Released(subscriptions[s], lost[s]) + gained[s]
  <2>3. wire'[s] = e /\ subscriptions'[s] = rest /\ pollers'[s] = pollers[s]
    BY <2>1 DEF Task
  <2>4. e \in Seq(Commands)
    BY <1>0, <2>2, EmittedType
  <2>5. CallsIn(e, "subscribe") \in Nat /\ CallsIn(e, "unsubscribe") \in Nat
    BY <2>4, CallsInNat
  <2>6. CallsIn(e, "subscribe") - CallsIn(e, "unsubscribe")
          - (IF rest > 0 THEN 1 ELSE 0)
        = CallsIn(wire[s], "subscribe") - CallsIn(wire[s], "unsubscribe")
            - (IF subscriptions[s] > 0 THEN 1 ELSE 0)
    BY <1>0, <2>2, EmittedBalance
  <2>. HIDE DEF e, rest
  <2>. QED
    BY <1>0, <2>3, <2>5, <2>6
<1>2. CASE Reload
  <2>1. wire' = wire /\ pollers' = pollers /\ subscriptions'[s] = 0
    BY <1>2 DEF Reload, NoCalls
  <2>. QED
    BY <1>0, <2>1
<1>3. ASSUME NEW t \in Servers, NEW i \in DOMAIN wire[t],
             rt_subscribe(t, i) \/ rt_unsubscribe(t, i)
      PROVE  NoLess(s)'
  <2>1. CASE s # t
    <3>1. /\ wire'[s] = wire[s] /\ pollers'[s] = pollers[s]
          /\ subscriptions' = subscriptions
      BY <1>3, <2>1 DEF rt_subscribe, rt_unsubscribe, Execute
    <3>. QED
      BY <3>1
  <2>2. CASE s = t
    <3>1. /\ wire'[s] = RemoveAt(wire[s], i) /\ subscriptions' = subscriptions
          /\ RemoveAt(wire[s], i) \in Seq(Commands)
      BY <1>3, <2>2, RemoveAtType DEF rt_subscribe, rt_unsubscribe, Execute
    <3>2. \A c : CallsIn(wire[s], c)
                   = CallsIn(wire'[s], c) + (IF wire[s][i] = c THEN 1 ELSE 0)
      BY <1>0, <1>3, <2>2, <3>1, CallsInRemoved
    <3>3. /\ CallsIn(wire'[s], "subscribe") \in Nat
          /\ CallsIn(wire'[s], "unsubscribe") \in Nat
      BY <3>1, CallsInNat
    <3>4. CASE rt_subscribe(t, i)
      <4>1. wire[s][i] = "subscribe" /\ pollers'[s] = pollers[s] + 1
        BY <2>2, <3>4 DEF rt_subscribe, Execute
      <4>. QED
        BY <1>0, <3>1, <3>2, <3>3, <4>1
    <3>5. CASE rt_unsubscribe(t, i)
      <4>1. /\ wire[s][i] = "unsubscribe"
            /\ pollers'[s] = IF pollers[s] > 1 THEN pollers[s] - 1 ELSE 0
        BY <2>2, <3>5 DEF rt_unsubscribe, Execute, AfterUnsubscribe
      <4>. QED
        BY <1>0, <3>1, <3>2, <3>3, <4>1
    <3>. QED
      BY <1>3, <3>4, <3>5
  <2>. QED
    BY <2>1, <2>2
<1>4. CASE UNCHANGED subVars
  BY <1>4 DEF subVars
<1>. QED
  BY <1>1, <1>2, <1>3, <1>4 DEF SubNext, Backend

\* The refcounts of rt_subscribe and rt_unsubscribe never fall below what the
\* page holds, whatever the order of the calls and however often the page is
\* reloaded: what is missing is on its way.
THEOREM NothingUndercounted == SubSpec => []NeverUndercounts
<1>1. NeverUndercounts <=> \A s \in Servers : NoLess(s)
  BY DEF NeverUndercounts, NoLess, InFlight, CallsIn, Where
<1>2. SubInit => \A s \in Servers : NoLess(s)
  <2>. SUFFICES ASSUME SubInit, NEW s \in Servers PROVE NoLess(s)
    OBVIOUS
  <2>1. wire[s] = <<>> /\ pollers[s] = 0 /\ ~Held(s)
    BY DEF SubInit, NoCalls, Held
  <2>2. \A c : CallsIn(<<>>, c) = 0
    <3>1. \A c : Where(<<>>, c) = {}
      BY DEF Where
    <3>. QED
      BY <3>1, FS_EmptySet DEF CallsIn
  <2>. QED
    BY <2>1, <2>2 DEF NoLess
<1>3. SubTypeOK /\ (\A s \in Servers : NoLess(s)) /\ [SubNext]_subVars
        => (\A s \in Servers : NoLess(s))'
  BY NoLessInductive
<1>. QED
  BY <1>1, <1>2, <1>3, SubTypeCorrect, PTL DEF SubSpec

\* A server some view holds is polled once its calls have been executed, in
\* whatever order, and after every reload of the page.
THEOREM HeldStaysPolled == SubSpec => []HeldIsPolled
<1>1. SubTypeOK /\ NeverUndercounts => HeldIsPolled
  <2>. SUFFICES ASSUME SubTypeOK, NeverUndercounts, NEW s \in Servers,
                       Idle(s), Held(s)
                PROVE  pollers[s] > 0
    BY DEF HeldIsPolled
  <2>1. \A c : {i \in DOMAIN wire[s] : wire[s][i] = c} = {}
    BY DEF Idle
  <2>2. \A c : InFlight(s, c) = 0
    BY <2>1, FS_EmptySet DEF InFlight
  <2>3. pollers[s] + 0 >= 0 + 1
    BY <2>2 DEF NeverUndercounts
  <2>. QED
    BY <2>3 DEF SubTypeOK
<1>. QED
  BY <1>1, NothingUndercounted, SubTypeCorrect, PTL

-----------------------------------------------------------------------------
(* The views ask nothing of the store that its users may not ask: what the *)
(* theorems above say of every use holds with these views.                 *)

Bounded == \A s \in Servers : subscriptions[s] <= MaxHolders

\* The panel is always a list on screen; a list page is on screen only at the
\* route of the lists and a detail page only at the route of a server; a view
\* that was never mounted holds nothing; and one that was unmounted while it
\* was fetching was left early.
ViewShape ==
  /\ Alive(Panel) /\ view[Panel].kind = "list"
  /\ page # NoPage => IF view[page].kind = "list" THEN route = "lists"
                                                  ELSE route \in Servers
  /\ \A v \in Views : view[v].phase = "new" => view[v].mine = {}
  /\ \A v \in Views : view[v].phase = "orphan" => "early" \in mishaps

ViewInv == ViewTypeOK /\ ViewShape /\ Bounded

\* A set of at most these two has as many members as it has of each.
LEMMA PairCount ==
  ASSUME NEW a, NEW b, a # b, NEW S \in SUBSET {a, b}
  PROVE  /\ IsFiniteSet(S)
         /\ Cardinality(S) = (IF a \in S THEN 1 ELSE 0) + (IF b \in S THEN 1 ELSE 0)
<1>1. \A x : IsFiniteSet({x}) /\ Cardinality({x}) = 1
  BY FS_Singleton
<1>2. IsFiniteSet({a, b}) /\ Cardinality({a, b}) = 2
  <2>1. {a} \cup {b} = {a, b} /\ b \notin {a}
    OBVIOUS
  <2>2. /\ IsFiniteSet({a} \cup {b})
        /\ Cardinality({a} \cup {b}) = Cardinality({a}) + 1
    BY <1>1, <2>1, FS_AddElement
  <2>. QED
    BY <1>1, <2>1, <2>2
<1>3. IsFiniteSet({}) /\ Cardinality({}) = 0
  BY FS_EmptySet
<1>4. CASE a \in S /\ b \in S
  <2>1. S = {a, b}
    BY <1>4
  <2>. QED
    BY <1>2, <1>4, <2>1
<1>5. CASE a \in S /\ b \notin S
  <2>1. S = {a}
    BY <1>5
  <2>2. IsFiniteSet({a}) /\ Cardinality({a}) = 1
    BY <1>1
  <2>. QED
    BY <1>5, <2>1, <2>2
<1>6. CASE a \notin S /\ b \in S
  <2>1. S = {b}
    BY <1>6
  <2>. QED
    BY <1>1, <1>6, <2>1
<1>7. CASE a \notin S /\ b \notin S
  <2>1. S = {}
    BY <1>7
  <2>. QED
    BY <1>3, <1>7, <2>1
<1>. QED
  BY <1>4, <1>5, <1>6, <1>7

\* Calls for more unsubscribes than there are holders do what as many do.
LEMMA ExcessIsIgnored ==
  ASSUME NEW c \in Nat, NEW n \in Nat, NEW m \in Nat, NEW w
  PROVE  LET few == IF n > c THEN c ELSE n IN
         /\ few \in Nat /\ few <= c
         /\ Released(c, few) = Released(c, n)
         /\ Emitted(c, few, m, w) = Emitted(c, n, m, w)
<1>. DEFINE few == IF n > c THEN c ELSE n
<1>1. few \in Nat /\ few <= c
  OBVIOUS
<1>2. Released(c, few) = Released(c, n)
  BY DEF Released
<1>3. Emitted(c, few, m, w) = Emitted(c, n, m, w)
  BY <1>2, Zenon DEF Emitted
<1>. QED
  BY <1>1, <1>2, <1>3

\* Whatever numbers of calls a task of the page makes, it is a task of the
\* store's users.
LEMMA TaskIsSomeTask ==
  ASSUME SubTypeOK, Bounded, NEW lost \in [Servers -> Nat],
         NEW gained \in [Servers -> Nat], Task(lost, gained)
  PROVE  SomeTask /\ Bounded'
<1>. DEFINE few == [s \in Servers |-> IF lost[s] > subscriptions[s]
                                      THEN subscriptions[s] ELSE lost[s]]
<1>1. ASSUME NEW s \in Servers
      PROVE  /\ few[s] \in 0..MaxHolders /\ gained[s] \in 0..MaxHolders
             /\ Released(subscriptions[s], few[s])
                  = Released(subscriptions[s], lost[s])
             /\ Emitted(subscriptions[s], few[s], gained[s], wire[s])
                  = Emitted(subscriptions[s], lost[s], gained[s], wire[s])
             /\ subscriptions'[s] <= MaxHolders
  <2>1. /\ subscriptions[s] \in Nat /\ lost[s] \in Nat /\ gained[s] \in Nat
        /\ subscriptions[s] <= MaxHolders /\ MaxHolders \in Nat
    BY BoundsAssumption DEF SubTypeOK, Bounded
  <2>2. /\ few[s] \in Nat /\ few[s] <= subscriptions[s]
        /\ Released(subscriptions[s], few[s]) = Released(subscriptions[s], lost[s])
        /\ Emitted(subscriptions[s], few[s], gained[s], wire[s])
             = Emitted(subscriptions[s], lost[s], gained[s], wire[s])
    BY <2>1, ExcessIsIgnored
  <2>3. Released(subscriptions[s], lost[s]) \in Nat
    BY <2>1, ReleasedNat
  <2>4. /\ subscriptions'[s] = Released(subscriptions[s], lost[s]) + gained[s]
        /\ subscriptions'[s] <= MaxHolders
    BY DEF Task
  <2>5. gained[s] <= MaxHolders
    BY <2>1, <2>3, <2>4
  <2>. QED
    BY <2>1, <2>2, <2>4, <2>5
<1>2. few \in [Servers -> 0..MaxHolders] /\ gained \in [Servers -> 0..MaxHolders]
  BY <1>1
<1>. HIDE DEF few
<1>3. Task(few, gained)
  <2>1. subscriptions' = [s \in Servers |->
                            Released(subscriptions[s], few[s]) + gained[s]]
    BY <1>1 DEF Task
  <2>2. wire' = [s \in Servers |->
                   Emitted(subscriptions[s], few[s], gained[s], wire[s])]
    BY <1>1 DEF Task
  <2>. QED
    BY <2>1, <2>2 DEF Task
<1>. QED
  BY <1>1, <1>2, <1>3 DEF SomeTask, Bounded

LEMMA CallTypes ==
  /\ NoCalls \in [Servers -> Nat]
  /\ \A s : One(s) \in [Servers -> Nat]
  /\ \A S : CallsFor(S) \in [Servers -> Nat]
  /\ \A f, g \in [Servers -> Nat] : Sum2(f, g) \in [Servers -> Nat]
BY DEF NoCalls, One, CallsFor, Sum2

\* The list views on screen are the panel and the page, if that is one.
LEMMA FewLists ==
  ASSUME ViewInv
  PROVE  /\ Panel \in LiveLists
         /\ LiveLists \subseteq {Panel, page}
         /\ page \in LiveLists <=> page # NoPage /\ view[page].kind = "list"
         /\ page # Panel
         /\ page # NoPage => page \in Pages /\ Alive(page)
<1>1. page # Panel
  BY ViewAssumption DEF ViewInv, ViewTypeOK
<1>2. page # NoPage => page \in Pages /\ Alive(page)
  BY DEF ViewInv, ViewTypeOK
<1>3. \A v \in Pages : Alive(v) => v = page
  BY DEF ViewInv, ViewTypeOK
<1>. QED
  BY <1>1, <1>2, <1>3, ViewAssumption
  DEF ViewInv, ViewTypeOK, ViewShape, LiveLists, Views

\* The calls of views that are being synchronised are counted by numbers.
LEMMA SyncTypes ==
  ASSUME ViewInv, NEW ids, NEW v \in Views, NEW syncing \in SUBSET (LiveLists \cup {v})
  PROVE  /\ Lost(syncing, ids) \in [Servers -> Nat]
         /\ Gained(syncing, ids) \in [Servers -> Nat]
<1>1. IsFiniteSet(syncing)
  <2>1. IsFiniteSet({Panel, page})
    BY FewLists, PairCount
  <2>2. IsFiniteSet({Panel, page} \cup {v})
    BY <2>1, FS_AddElement
  <2>3. syncing \subseteq {Panel, page} \cup {v}
    BY FewLists
  <2>. QED
    BY <2>2, <2>3, FS_Subset
<1>2. \A S : S \subseteq syncing => Cardinality(S) \in Nat
  BY <1>1, FS_Subset, FS_CardinalityType
<1>. QED
  BY <1>2 DEF Lost, Gained

\* Synchronising changes what some views hold and nothing else of them.
LEMMA SyncedViews ==
  ASSUME ViewInv, NEW syncing, NEW ids \in SUBSET Servers
  PROVE  /\ Synced(syncing, ids) \in
              [Views -> [kind : Kinds, phase : Phases, mine : SUBSET Servers]]
         /\ \A v \in Views :
              /\ Synced(syncing, ids)[v].kind = view[v].kind
              /\ Synced(syncing, ids)[v].phase = view[v].phase
              /\ Synced(syncing, ids)[v].mine
                   = IF v \in syncing THEN ids ELSE view[v].mine
BY DEF ViewInv, ViewTypeOK, Synced

\* What a step does to the store and the backend is a step of Subscriptions.
LEMMA ViewStepUsesStore ==
  ASSUME ViewInv, [ViewNext]_allVars
  PROVE  [SubNext]_subVars /\ Bounded'
<1>. SUFFICES \/ \E lost, gained \in [Servers -> Nat] : Task(lost, gained)
              \/ UNCHANGED subVars
              \/ \E s \in Servers : Backend(s)
  <2>1. SubTypeOK /\ Bounded
    BY DEF ViewInv, ViewTypeOK
  <2>2. UNCHANGED subscriptions => Bounded'
    BY <2>1 DEF Bounded
  <2>. QED
    BY <2>1, <2>2, TaskIsSomeTask DEF SubNext, subVars, Backend, rt_subscribe,
         rt_unsubscribe, Execute
<1>1. ASSUME NEW to \in Routes, SwitchServer(to)
      PROVE  \E lost, gained \in [Servers -> Nat] : Task(lost, gained)
  BY <1>1, CallTypes DEF SwitchServer
<1>2. ASSUME NEW to \in Routes, LeavePage(to)
      PROVE  \E lost, gained \in [Servers -> Nat] : Task(lost, gained)
  <2>1. CASE Task(ReleasedOnLeave, NoCalls)
    BY <2>1, CallTypes DEF ReleasedOnLeave
  <2>2. ASSUME NEW watched \in BOOLEAN,
               Task(IF watched THEN One(route) ELSE NoCalls, NoCalls)
        PROVE  \E lost, gained \in [Servers -> Nat] : Task(lost, gained)
    <3>1. (IF watched THEN One(route) ELSE NoCalls) \in [Servers -> Nat]
      BY CallTypes
    <3>. QED
      BY <2>2, <3>1, CallTypes
  <2>. QED
    BY <1>2, <2>1, <2>2 DEF LeavePage
<1>3. ASSUME NEW p \in Pages, MountPage(p)
      PROVE  \/ \E lost, gained \in [Servers -> Nat] : Task(lost, gained)
             \/ UNCHANGED subVars
  <2>1. CASE known = {}
    BY <1>3, <2>1 DEF MountPage
  <2>2. CASE known # {}
    <3>1. \E held : Task(NoCalls, CallsFor(held))
      BY <1>3, <2>2 DEF MountPage
    <3>. QED
      BY <3>1, CallTypes
  <2>. QED
    BY <2>1, <2>2
<1>4. ASSUME NEW v \in Views, FetchResolves(v)
      PROVE  \E lost, gained \in [Servers -> Nat] : Task(lost, gained)
  <2>. DEFINE isList == view[v].kind = "list"
              own == IF ~isList /\ route \in Servers THEN One(route) ELSE NoCalls
              syncing(ids) == Watching(ids) \cup (IF isList THEN {v} ELSE {})
  <2>1. PICK ids \in Answers :
          Task(Lost(syncing(ids), ids), Sum2(Gained(syncing(ids), ids), own))
    BY <1>4 DEF FetchResolves
  <2>2. syncing(ids) \in SUBSET (LiveLists \cup {v})
    BY DEF Watching
  <2>3. own \in [Servers -> Nat]
    BY CallTypes
  <2>. HIDE DEF syncing, own
  <2>4. /\ Lost(syncing(ids), ids) \in [Servers -> Nat]
        /\ Sum2(Gained(syncing(ids), ids), own) \in [Servers -> Nat]
    BY <2>2, <2>3, SyncTypes, CallTypes
  <2>. QED
    BY <2>1, <2>4
<1>5. ASSUME NEW ids, ListBecomes(ids)
      PROVE  \E lost, gained \in [Servers -> Nat] : Task(lost, gained)
  <2>1. Watching(ids) \in SUBSET (LiveLists \cup {Panel}) /\ Panel \in Views
    BY DEF Watching, Views
  <2>. QED
    BY <1>5, <2>1, SyncTypes DEF ListBecomes
<1>6. CASE RefreshPage
  BY <1>6 DEF RefreshPage
<1>7. ASSUME NEW to \in Routes, Wander(to) PROVE UNCHANGED subVars
  BY <1>7 DEF Wander
<1>8. CASE Refresh
  BY <1>5, <1>8 DEF Refresh
<1>9. ASSUME NEW s \in Servers, CreateServer(s) \/ RemoveServer(s)
      PROVE  \E lost, gained \in [Servers -> Nat] : Task(lost, gained)
  BY <1>5, <1>9 DEF CreateServer, RemoveServer
<1>10. CASE UNCHANGED allVars
  BY <1>10 DEF allVars
<1>. QED
  BY <1>1, <1>2, <1>3, <1>4, <1>6, <1>7, <1>8, <1>9, <1>10 DEF ViewNext

ViewRecords == [kind : Kinds, phase : Phases, mine : SUBSET Servers]

\* ViewTypeOK without the part that is about the store.
ViewState ==
  /\ route \in Routes /\ page \in Pages \cup {NoPage}
  /\ known \in SUBSET Servers /\ stored \in SUBSET Servers
  /\ view \in [Views -> ViewRecords]
  /\ edits \in Nat /\ edits <= MaxEdits /\ mishaps \in SUBSET Mishaps
  /\ \A p \in Pages : Alive(p) <=> p = page

LEMMA ViewStateIsType == ViewTypeOK <=> SubTypeOK /\ ViewState
<1>1. ASSUME page \in Pages \cup {NoPage}
      PROVE  {p \in Pages : Alive(p)} = {page} \ {NoPage}
               <=> \A p \in Pages : Alive(p) <=> p = page
  BY <1>1, ViewAssumption
<1>2. edits \in 0..MaxEdits <=> edits \in Nat /\ edits <= MaxEdits
  BY ViewAssumption
<1>. QED
  BY <1>1, <1>2 DEF ViewTypeOK, ViewState, ViewRecords

\* The panel and the page on screen stay the only views that are alive.
LEMMA ViewShapeInductive ==
  ASSUME ViewInv, [ViewNext]_allVars
  PROVE  ViewInv'
<1>0. /\ ViewState /\ ViewShape
      /\ Pages \subseteq Views /\ Panel \in Views /\ Panel \notin Pages
      /\ NoPage \notin Pages /\ NoPage # Panel
      /\ \A v \in Views : v = Panel \/ v \in Pages
  BY ViewStateIsType, ViewAssumption DEF ViewInv, Views
<1>1. SubTypeOK' /\ Bounded'
  BY ViewStepUsesStore, SubTypeInductive DEF ViewInv, ViewTypeOK
<1>2. SUFFICES ViewState' /\ ViewShape'
  <2>1. ViewTypeOK' <=> SubTypeOK' /\ ViewState'
    BY ViewStateIsType, PTL
  <2>. QED
    BY <1>1, <2>1 DEF ViewInv
<1>. USE DEF ViewState, ViewShape, Alive
<1>3. ASSUME NEW to \in Routes, SwitchServer(to)
      PROVE  ViewState' /\ ViewShape'
  <2>1. /\ route' = to /\ to \in Servers /\ route \in Servers
        /\ UNCHANGED <<page, known, stored, view, edits>>
        /\ mishaps' = mishaps \cup Hurried
    BY <1>3 DEF SwitchServer
  <2>2. Hurried \subseteq Mishaps
    BY DEF Hurried, Mishaps
  <2>. QED
    BY <1>0, <2>1, <2>2, ViewAssumption
<1>4. ASSUME NEW to \in Routes, LeavePage(to)
      PROVE  ViewState' /\ ViewShape'
  <2>1. /\ route' = to /\ page # NoPage /\ page' = NoPage
        /\ view' = Unmounted(page)
        /\ UNCHANGED <<known, stored, edits>>
        /\ mishaps' \in SUBSET Mishaps /\ mishaps \cup Hurried \subseteq mishaps'
    <3>1. Hurried \subseteq Mishaps /\ "unwatched" \in Mishaps
      BY DEF Hurried, Mishaps
    <3>. QED
      BY <1>0, <1>4, <3>1 DEF LeavePage
  <2>2. view' \in [Views -> ViewRecords]
    BY <1>0, <2>1 DEF Unmounted, ViewRecords, Phases
  <2>3. /\ \A v \in Views : v # page => view'[v] = view[v]
        /\ view'[page].phase = IF view[page].phase = "fetching" THEN "orphan" ELSE "gone"
        /\ view'[page].mine = view[page].mine
    BY <1>0, <2>1 DEF Unmounted, ViewRecords
  <2>4. view[page].phase = "fetching" => "early" \in mishaps'
    BY <2>1 DEF Hurried, Pending
  <2>5. \A p \in Pages : Alive(p)' <=> p = page'
    BY <1>0, <2>1, <2>3
  <2>. QED
    BY <1>0, <2>1, <2>2, <2>3, <2>4, <2>5
<1>5. ASSUME NEW to \in Routes, Wander(to)
      PROVE  ViewState' /\ ViewShape'
  BY <1>0, <1>5 DEF Wander
<1>6. ASSUME NEW p \in Pages, MountPage(p)
      PROVE  ViewState' /\ ViewShape'
  <2>. DEFINE kind == IF route = "lists" THEN "list" ELSE "detail"
  <2>1. /\ page = NoPage /\ route # "elsewhere" /\ page' = p
        /\ view[p].phase = "new"
        /\ UNCHANGED <<route, known, stored, edits, mishaps>>
    BY <1>6 DEF MountPage
  <2>2. /\ view' \in [Views -> ViewRecords]
        /\ \A v \in Views : v # p => view'[v] = view[v]
        /\ view'[p].kind = kind
        /\ view'[p].phase \in {"fetching", "mounted"}
    <3>1. CASE known = {}
      <4>1. view' = [view EXCEPT ![p] = [@ EXCEPT !.kind = kind, !.phase = "fetching"]]
        BY <1>6, <3>1 DEF MountPage
      <4>. QED
        BY <1>0, <4>1 DEF ViewRecords, Kinds, Phases
    <3>2. CASE known # {}
      <4>1. view' = [view EXCEPT ![p] =
                      [kind |-> kind, phase |-> "mounted",
                       mine |-> IF kind = "list" THEN known ELSE {}]]
        BY <1>6, <3>2 DEF MountPage
      <4>. QED
        BY <1>0, <4>1 DEF ViewRecords, Kinds, Phases
    <3>. QED
      BY <3>1, <3>2
  <2>. HIDE DEF kind
  <2>3. \A q \in Pages : Alive(q)' <=> q = page'
    BY <1>0, <2>1, <2>2
  <2>4. IF kind = "list" THEN route = "lists" ELSE route \in Servers
    BY <1>0, <2>1 DEF kind, Routes
  <2>. QED
    BY <1>0, <2>1, <2>2, <2>3, <2>4
<1>7. ASSUME NEW v \in Views, FetchResolves(v)
      PROVE  ViewState' /\ ViewShape'
  <2>1. PICK ids \in Answers, syncing \in SUBSET (LiveLists \cup {v}) :
          /\ known' = ids
          /\ view' = [Synced(syncing, ids) EXCEPT ![v].phase =
                        IF @ = "fetching" THEN "mounted" ELSE "gone"]
    <3>1. \A ids : Watching(ids) \cup (IF view[v].kind = "list" THEN {v} ELSE {})
                     \in SUBSET (LiveLists \cup {v})
      BY DEF Watching
    <3>. QED
      BY <1>7, <3>1 DEF FetchResolves
  <2>2. /\ Pending(v)
        /\ UNCHANGED <<route, page, stored, edits, mishaps>>
        /\ ids \in SUBSET Servers
    BY <1>0, <1>7 DEF FetchResolves, Answers
  <2>3. /\ Synced(syncing, ids) \in [Views -> ViewRecords]
        /\ \A u \in Views : /\ Synced(syncing, ids)[u].kind = view[u].kind
                            /\ Synced(syncing, ids)[u].phase = view[u].phase
                            /\ u \notin syncing =>
                                 Synced(syncing, ids)[u].mine = view[u].mine
    BY <2>2, SyncedViews DEF ViewRecords
  <2>. DEFINE sync == Synced(syncing, ids)
  <2>. HIDE DEF sync
  <2>4. /\ view' = [sync EXCEPT ![v].phase =
                      IF @ = "fetching" THEN "mounted" ELSE "gone"]
        /\ sync \in [Views -> ViewRecords]
        /\ \A u \in Views : /\ sync[u].kind = view[u].kind
                            /\ sync[u].phase = view[u].phase
                            /\ u \notin syncing => sync[u].mine = view[u].mine
    BY <2>1, <2>3 DEF sync
  <2>5. view' \in [Views -> ViewRecords]
    BY <2>4 DEF ViewRecords, Phases
  <2>6. /\ \A u \in Views : u # v => view'[u] = sync[u]
        /\ view'[v].kind = view[v].kind
        /\ view'[v].phase = IF view[v].phase = "fetching" THEN "mounted" ELSE "gone"
    BY <2>4 DEF ViewRecords
  <2>7. \A u \in Views : Alive(u)' <=> Alive(u)
    BY <2>2, <2>4, <2>6 DEF Pending
  <2>8. ASSUME NEW u \in Views, view'[u].phase \in {"new", "orphan"}
        PROVE  view'[u] = sync[u] /\ view'[u].phase = view[u].phase
    BY <2>4, <2>6, <2>8
  <2>9. ASSUME NEW u \in Views, view'[u].phase = "new"
        PROVE  view'[u].mine = {}
    <3>1. view'[u] = sync[u] /\ view[u].phase = "new" /\ u # v
      BY <2>2, <2>8, <2>9 DEF Pending
    <3>2. u \notin syncing
      BY <2>1, <3>1 DEF LiveLists
    <3>. QED
      BY <1>0, <2>4, <3>1, <3>2
  <2>10. \A u \in Views : view'[u].phase = "orphan" => "early" \in mishaps
    BY <1>0, <2>8
  <2>11. \A u \in Views : view'[u].kind = view[u].kind
    BY <2>4, <2>6
  <2>12. ViewState'
    BY <1>0, <2>1, <2>2, <2>5, <2>7
  <2>13. ViewShape'
    BY <1>0, <2>2, <2>7, <2>9, <2>10, <2>11
  <2>. QED
    BY <2>12, <2>13
<1>8. ASSUME NEW ids \in SUBSET Servers, ListBecomes(ids),
             stored' \in SUBSET Servers, edits' \in Nat, edits' <= MaxEdits
      PROVE  ViewState' /\ ViewShape'
  <2>1. /\ known' = ids /\ view' = Synced(Watching(ids), ids)
        /\ UNCHANGED <<route, page, mishaps>>
    BY <1>8 DEF ListBecomes
  <2>2. /\ view' \in [Views -> ViewRecords]
        /\ \A u \in Views : /\ view'[u].kind = view[u].kind
                            /\ view'[u].phase = view[u].phase
                            /\ u \notin Watching(ids) => view'[u].mine = view[u].mine
    BY <2>1, SyncedViews DEF ViewRecords
  <2>3. \A u \in Views : view[u].phase = "new" => u \notin Watching(ids)
    BY DEF Watching, LiveLists
  <2>. QED
    BY <1>0, <1>8, <2>1, <2>2, <2>3
<1>9. CASE Refresh
  BY <1>0, <1>8, <1>9 DEF Refresh
<1>10. ASSUME NEW s \in Servers, CreateServer(s)
       PROVE  ViewState' /\ ViewShape'
  BY <1>0, <1>8, <1>10, ViewAssumption DEF CreateServer
<1>11. ASSUME NEW s \in Servers, RemoveServer(s)
       PROVE  ViewState' /\ ViewShape'
  BY <1>0, <1>8, <1>11, ViewAssumption DEF RemoveServer
<1>12. CASE RefreshPage
  <2>1. /\ page # NoPage /\ page \in Views /\ view[page].phase = "mounted"
        /\ view' = [view EXCEPT ![page].phase = "fetching"]
        /\ UNCHANGED <<route, page, known, stored, edits, mishaps>>
    BY <1>0, <1>12 DEF RefreshPage
  <2>2. view' \in [Views -> ViewRecords]
    BY <1>0, <2>1 DEF ViewRecords, Phases
  <2>3. /\ \A v \in Views : v # page => view'[v] = view[v]
        /\ view'[page].kind = view[page].kind /\ view'[page].phase = "fetching"
    BY <1>0, <2>1 DEF ViewRecords
  <2>4. \A p \in Pages : Alive(p)' <=> p = page'
    BY <1>0, <2>1, <2>3
  <2>. QED
    BY <1>0, <2>1, <2>2, <2>3, <2>4
<1>13. CASE UNCHANGED viewVars
  BY <1>0, <1>13 DEF viewVars
<1>. QED
  BY <1>3, <1>4, <1>5, <1>6, <1>7, <1>9, <1>10, <1>11, <1>12, <1>13
  DEF ViewNext, allVars

LEMMA ViewInitInv == ViewInit => ViewInv
<1>. SUFFICES ASSUME ViewInit PROVE ViewInv
  OBVIOUS
<1>1. SubTypeOK /\ Bounded
  BY BoundsAssumption DEF ViewInit, SubInit, SubTypeOK, Bounded, NoCalls
<1>2. ViewState /\ ViewShape
  <2>1. view \in [Views -> ViewRecords]
    BY DEF ViewInit, ViewRecords, Kinds, Phases
  <2>2. \A v \in Views : /\ view[v].kind = "list" /\ view[v].mine = {}
                         /\ view[v].phase = IF v = Panel THEN "fetching" ELSE "new"
    BY DEF ViewInit
  <2>. QED
    BY <2>1, <2>2, ViewAssumption
    DEF ViewInit, ViewState, ViewShape, Alive, Views, Mishaps
<1>. QED
  BY <1>1, <1>2, ViewStateIsType DEF ViewInv

THEOREM ViewInvariant == ViewSpec => []ViewInv
<1>1. ViewInv /\ [ViewNext]_allVars => ViewInv'
  BY ViewShapeInductive
<1>. QED
  BY <1>1, ViewInitInv, PTL DEF ViewSpec

\* The store, the router, the views and the server list keep their types, and of the
\* routed pages the one on screen is the one the router has.
THEOREM ViewTypeCorrect == ViewSpec => []ViewTypeOK
<1>1. ViewInv => ViewTypeOK
  BY DEF ViewInv
<1>. QED
  BY <1>1, ViewInvariant, PTL

\* The list views and the detail view ask of stores/realtime.js nothing but
\* calls any user of it may make, and its backend nothing else: whatever is
\* proved of every use of the subscriptions holds with these views.
THEOREM ViewsUseTheStore == ViewSpec => SubSpec
<1>1. ViewInit => SubInit
  BY DEF ViewInit
<1>2. ViewInv /\ [ViewNext]_allVars => [SubNext]_subVars
  BY ViewStepUsesStore
<1>. QED
  BY <1>1, <1>2, ViewInvariant, PTL DEF ViewSpec, SubSpec

\* With the views of the page as the users of the store, whatever they mount, leave
\* and fetch and in whatever order calls arrive: what a view holds is counted, and
\* polled once its calls have been executed.
THEOREM ViewsArePolled == ViewSpec => [](NeverUndercounts /\ HeldIsPolled)
BY ViewsUseTheStore, NothingUndercounted, HeldStaysPolled, PTL

-----------------------------------------------------------------------------
(* The counts of the store are the views on screen. *)

Bit(b) == IF b THEN 1 ELSE 0
OfPanel(s) == Bit(s \in view[Panel].mine)
OfPage(s) == Bit(page # NoPage /\ s \in Shows(page))

\* A view that was left early gives back what it does not have or keeps what it
\* has; until then no view on screen is counted less than once, and a detail
\* page whose watcher did not run is one that is counted still.
CountInv ==
  \A s \in Servers :
    /\ "early" \notin mishaps => OfPanel(s) + OfPage(s) <= subscriptions[s]
    /\ mishaps = {} => OfPanel(s) + OfPage(s) = subscriptions[s]

LEMMA ShownCount ==
  ASSUME ViewInv, NEW s \in Servers
  PROVE  Cardinality({v \in Views : s \in Shows(v)}) = OfPanel(s) + OfPage(s)
<1>. DEFINE S == {v \in Views : s \in Shows(v)}
<1>1. /\ Panel \in Views /\ Panel # page /\ Alive(Panel) /\ view[Panel].kind = "list"
      /\ page # NoPage => page \in Views
      /\ NoPage \notin Views
      /\ \A v \in Views : Alive(v) => v = Panel \/ v = page
  BY FewLists, ViewAssumption DEF ViewInv, ViewTypeOK, ViewShape, Views
<1>2. S \in SUBSET {Panel, page}
  BY <1>1 DEF Shows
<1>3. Panel \in S <=> s \in view[Panel].mine
  BY <1>1 DEF Shows
<1>4. page \in S <=> page # NoPage /\ s \in Shows(page)
  BY <1>1
<1>. HIDE DEF S
<1>5. Cardinality(S) = (IF Panel \in S THEN 1 ELSE 0) + (IF page \in S THEN 1 ELSE 0)
  BY <1>1, <1>2, PairCount
<1>. QED
  BY <1>3, <1>4, <1>5 DEF OfPanel, OfPage, Bit, S

\* What the list views on screen lose and gain when the list becomes ids.
LEMMA SyncTally ==
  ASSUME ViewInv, NEW ids, NEW syncing \in SUBSET LiveLists, NEW s \in Servers
  PROVE  /\ Lost(syncing, ids)[s]
              = Bit(Panel \in syncing /\ s \in view[Panel].mine \ ids)
                + Bit(page \in syncing /\ s \in view[page].mine \ ids)
         /\ Gained(syncing, ids)[s]
              = Bit(Panel \in syncing /\ s \in ids \ view[Panel].mine)
                + Bit(page \in syncing /\ s \in ids \ view[page].mine)
<1>. DEFINE L == {v \in syncing : s \in view[v].mine \ ids}
            G == {v \in syncing : s \in ids \ view[v].mine}
<1>1. Panel # page /\ syncing \subseteq {Panel, page}
  BY FewLists
<1>2. L \in SUBSET {Panel, page} /\ G \in SUBSET {Panel, page}
  BY <1>1
<1>3. /\ Panel \in L <=> Panel \in syncing /\ s \in view[Panel].mine \ ids
      /\ page \in L <=> page \in syncing /\ s \in view[page].mine \ ids
      /\ Panel \in G <=> Panel \in syncing /\ s \in ids \ view[Panel].mine
      /\ page \in G <=> page \in syncing /\ s \in ids \ view[page].mine
  OBVIOUS
<1>4. Lost(syncing, ids)[s] = Cardinality(L) /\ Gained(syncing, ids)[s] = Cardinality(G)
  BY DEF Lost, Gained
<1>. HIDE DEF L, G
<1>5. /\ Cardinality(L) = (IF Panel \in L THEN 1 ELSE 0) + (IF page \in L THEN 1 ELSE 0)
      /\ Cardinality(G) = (IF Panel \in G THEN 1 ELSE 0) + (IF page \in G THEN 1 ELSE 0)
  BY <1>1, <1>2, PairCount
<1>. QED
  BY <1>3, <1>4, <1>5 DEF Bit

\* A count that covers t views covers what is left of them.
LEMMA CountMoves ==
  ASSUME NEW c \in Nat, NEW t \in Nat, NEW lost \in Nat, NEW gained \in Nat,
         NEW t2 \in Nat, t <= c, lost <= t, t2 <= t - lost + gained
  PROVE  /\ t2 <= Released(c, lost) + gained
         /\ t = c /\ t2 = t - lost + gained => t2 = Released(c, lost) + gained
BY DEF Released

\* Synchronising the list views on screen with a list: the views that hold a
\* server are more and less by as many as take and release it.
LEMMA SyncCounts ==
  ASSUME ViewInv, NEW ids \in SUBSET Servers, NEW syncing \in SUBSET LiveLists,
         NEW s \in Servers
  PROVE  LET mine(v) == Synced(syncing, ids)[v].mine
             onPage == page \in LiveLists
         IN /\ Lost(syncing, ids)[s] \in Nat /\ Gained(syncing, ids)[s] \in Nat
            /\ Lost(syncing, ids)[s]
                 <= OfPanel(s) + Bit(onPage /\ s \in view[page].mine)
            /\ Bit(s \in mine(Panel)) + Bit(onPage /\ s \in mine(page))
                 = OfPanel(s) + Bit(onPage /\ s \in view[page].mine)
                     - Lost(syncing, ids)[s] + Gained(syncing, ids)[s]
<1>. DEFINE mine(v) == Synced(syncing, ids)[v].mine
            lostP == Bit(Panel \in syncing /\ s \in view[Panel].mine \ ids)
            lostQ == Bit(page \in syncing /\ s \in view[page].mine \ ids)
            gainP == Bit(Panel \in syncing /\ s \in ids \ view[Panel].mine)
            gainQ == Bit(page \in syncing /\ s \in ids \ view[page].mine)
            hadQ == Bit(page \in LiveLists /\ s \in view[page].mine)
            hasP == Bit(s \in mine(Panel))
            hasQ == Bit(page \in LiveLists /\ s \in mine(page))
<1>1. \A v \in Views : mine(v) = IF v \in syncing THEN ids ELSE view[v].mine
  BY SyncedViews
<1>2. Panel \in Views /\ LiveLists \subseteq Views
  BY DEF Views, LiveLists
<1>3. page \in syncing => page \in LiveLists
  OBVIOUS
<1>. HIDE DEF mine
<1>4. hasP = OfPanel(s) - lostP + gainP
  BY <1>1, <1>2 DEF OfPanel, Bit
<1>5. hasQ = hadQ - lostQ + gainQ
  BY <1>1, <1>2, <1>3 DEF Bit
<1>6. lostP <= OfPanel(s) /\ lostQ <= hadQ
  BY <1>3 DEF OfPanel, Bit
<1>7. Lost(syncing, ids)[s] = lostP + lostQ /\ Gained(syncing, ids)[s] = gainP + gainQ
  BY SyncTally
<1>8. /\ OfPanel(s) \in Nat /\ lostP \in Nat /\ lostQ \in Nat /\ gainP \in Nat
      /\ gainQ \in Nat /\ hadQ \in Nat /\ hasP \in Nat /\ hasQ \in Nat
  BY DEF Bit, OfPanel
<1>. HIDE DEF lostP, lostQ, gainP, gainQ, hadQ, hasP, hasQ
<1>9. /\ Lost(syncing, ids)[s] \in Nat /\ Gained(syncing, ids)[s] \in Nat
      /\ Lost(syncing, ids)[s] <= OfPanel(s) + hadQ
      /\ hasP + hasQ
           = OfPanel(s) + hadQ - Lost(syncing, ids)[s] + Gained(syncing, ids)[s]
  BY <1>4, <1>5, <1>6, <1>7, <1>8
<1>. QED
  BY <1>9 DEF mine, hadQ, hasP, hasQ

LEMMA MishapsStay ==
  ASSUME [ViewNext]_allVars
  PROVE  mishaps \subseteq mishaps'
BY DEF ViewNext, allVars, viewVars, SwitchServer, LeavePage, Wander, MountPage,
       FetchResolves, ListBecomes, RefreshPage, Refresh, CreateServer, RemoveServer

\* What one step does to the holders of a server: lost of them release it and
\* gained take it, in the store too, and the rest leak it.
Moved(s) ==
  \E lost, gained \in Nat :
    /\ lost <= OfPanel(s) + OfPage(s)
    /\ subscriptions'[s] = Released(subscriptions[s], lost) + gained
    /\ OfPanel(s)' + OfPage(s)' <= (OfPanel(s) + OfPage(s)) - lost + gained
    /\ mishaps' = {} =>
         OfPanel(s)' + OfPage(s)' = (OfPanel(s) + OfPage(s)) - lost + gained

LEMMA MovedKeepsCount ==
  ASSUME ViewInv, ViewInv', CountInv, mishaps \subseteq mishaps',
         "early" \notin mishaps' => \A s \in Servers : Moved(s)
  PROVE  CountInv'
<1>. SUFFICES ASSUME "early" \notin mishaps', NEW s \in Servers
              PROVE  /\ OfPanel(s)' + OfPage(s)' <= subscriptions'[s]
                     /\ mishaps' = {} =>
                          OfPanel(s)' + OfPage(s)' = subscriptions'[s]
  BY DEF CountInv
<1>. DEFINE t == OfPanel(s) + OfPage(s)
            t2 == OfPanel(s)' + OfPage(s)'
            c == subscriptions[s]
<1>0. Moved(s)
  OBVIOUS
<1>1. PICK lost \in Nat, gained \in Nat :
        /\ lost <= t
        /\ subscriptions'[s] = Released(c, lost) + gained
        /\ t2 <= t - lost + gained
        /\ mishaps' = {} => t2 = t - lost + gained
  BY <1>0 DEF Moved
<1>2. c \in Nat /\ t \in Nat /\ t2 \in Nat
  BY DEF ViewInv, ViewTypeOK, SubTypeOK, OfPanel, OfPage, Bit
<1>3. t <= c /\ (mishaps' = {} => t = c)
  BY DEF CountInv
<1>. HIDE DEF t, t2, c
<1>4. /\ t2 <= Released(c, lost) + gained
      /\ t = c /\ t2 = t - lost + gained => t2 = Released(c, lost) + gained
  BY <1>1, <1>2, <1>3, CountMoves
<1>. QED
  BY <1>1, <1>3, <1>4 DEF t2

\* What the page on screen shows: its list, or the server of the route.
PageIsShown ==
  \A s \in Servers :
    OfPage(s) = Bit(page # NoPage /\ IF view[page].kind = "list"
                                     THEN s \in view[page].mine
                                     ELSE view[page].phase = "mounted" /\ s = route)

LEMMA PageShows == ViewInv => PageIsShown
<1>. SUFFICES ASSUME ViewInv, NEW s \in Servers, page # NoPage
              PROVE  s \in Shows(page) <=>
                       IF view[page].kind = "list" THEN s \in view[page].mine
                       ELSE view[page].phase = "mounted" /\ s = route
  BY DEF PageIsShown, OfPage, Bit
<1>1. Alive(page)
  BY FewLists
<1>. QED
  BY <1>1 DEF Shows

LEMMA NothingMoves ==
  ASSUME ViewInv, NEW s \in Servers, subscriptions'[s] = subscriptions[s],
         OfPanel(s)' = OfPanel(s), OfPage(s)' = OfPage(s)
  PROVE  Moved(s)
<1>1. subscriptions[s] \in Nat /\ OfPanel(s) \in Nat /\ OfPage(s) \in Nat
  BY DEF ViewInv, ViewTypeOK, SubTypeOK, OfPanel, OfPage, Bit
<1>2. Released(subscriptions[s], 0) + 0 = subscriptions[s]
  BY <1>1 DEF Released
<1>3. /\ 0 \in Nat /\ 0 <= OfPanel(s) + OfPage(s)
      /\ (OfPanel(s) + OfPage(s)) - 0 + 0 = OfPanel(s) + OfPage(s)
      /\ OfPanel(s) + OfPage(s) <= OfPanel(s) + OfPage(s)
  BY <1>1
<1>. QED
  BY <1>2, <1>3 DEF Moved

\* A navigation moves what the page holds, unless a watcher does not run.
LEMMA NavigationMoves ==
  ASSUME ViewInv, ViewInv', "early" \notin mishaps', NEW to \in Routes,
         SwitchServer(to) \/ LeavePage(to), NEW s \in Servers
  PROVE  Moved(s)
<1>0. /\ page # NoPage /\ page \in Views /\ Panel \in Views /\ page # Panel
      /\ view[page].phase = "mounted"
      /\ view \in [Views -> ViewRecords]
      /\ view[page].kind \in Kinds
  <2>1. page # NoPage /\ Hurried \subseteq mishaps'
    BY DEF SwitchServer, LeavePage
  <2>2. page \in Pages /\ Alive(page) /\ page # Panel
    BY <2>1, FewLists
  <2>3. ~Pending(page)
    BY <2>1 DEF Hurried
  <2>4. view \in [Views -> ViewRecords] /\ page \in Views /\ Panel \in Views
    BY <2>2 DEF ViewInv, ViewTypeOK, ViewRecords, Views
  <2>. QED
    BY <2>1, <2>2, <2>3, <2>4 DEF Alive, Pending, ViewRecords
<1>1. OfPage(s) = Bit(IF view[page].kind = "list" THEN s \in view[page].mine
                                                  ELSE s = route)
  BY <1>0, PageShows DEF PageIsShown
<1>2. OfPage(s)' = Bit(page' # NoPage /\ IF view'[page'].kind = "list"
                                         THEN s \in view'[page'].mine
                                         ELSE view'[page'].phase = "mounted" /\ s = route')
  <2>1. PageIsShown'
    BY PageShows, PTL
  <2>. QED
    BY <2>1 DEF PageIsShown
<1>3. OfPanel(s)' = OfPanel(s)
  <2>1. view'[Panel].mine = view[Panel].mine
    BY <1>0 DEF SwitchServer, LeavePage, Unmounted
  <2>. QED
    BY <2>1 DEF OfPanel
<1>4. OfPanel(s) \in Nat /\ OfPage(s) \in Nat /\ \A b : Bit(b) \in Nat
  BY DEF OfPanel, OfPage, Bit
<1>5. CASE SwitchServer(to)
  <2>1. /\ route' = to /\ route \in Servers /\ UNCHANGED <<page, view>>
        /\ Task(One(route), One(to))
    BY <1>5 DEF SwitchServer
  <2>2. view[page].kind # "list"
    BY <1>0, <2>1, ViewAssumption DEF ViewInv, ViewShape
  <2>3. OfPage(s) = Bit(s = route) /\ OfPage(s)' = Bit(s = to)
    BY <1>0, <1>1, <1>2, <2>1, <2>2
  <2>4. subscriptions'[s] = Released(subscriptions[s], Bit(s = route)) + Bit(s = to)
    BY <2>1 DEF Task, One, Bit
  <2>5. /\ Bit(s = route) <= OfPanel(s) + OfPage(s)
        /\ OfPanel(s)' + OfPage(s)'
             = (OfPanel(s) + OfPage(s)) - Bit(s = route) + Bit(s = to)
        /\ OfPanel(s)' + OfPage(s)'
             <= (OfPanel(s) + OfPage(s)) - Bit(s = route) + Bit(s = to)
    BY <1>3, <1>4, <2>3
  <2>. QED
    BY <1>4, <2>4, <2>5 DEF Moved
<1>6. CASE LeavePage(to)
  <2>1. OfPage(s)' = 0
    BY <1>2, <1>6 DEF LeavePage, Bit
  <2>2. ASSUME Task(CallsFor({t \in Servers : OfPage(t) = 1}), NoCalls)
        PROVE  Moved(s)
    <3>1. subscriptions'[s] = Released(subscriptions[s], OfPage(s)) + 0
      BY <2>2 DEF Task, CallsFor, NoCalls, OfPage, Bit
    <3>2. /\ OfPage(s) \in Nat /\ 0 \in Nat /\ OfPage(s) <= OfPanel(s) + OfPage(s)
          /\ OfPanel(s)' + OfPage(s)' = (OfPanel(s) + OfPage(s)) - OfPage(s) + 0
          /\ OfPanel(s)' + OfPage(s)' <= (OfPanel(s) + OfPage(s)) - OfPage(s) + 0
      BY <1>3, <1>4, <2>1
    <3>. QED
      BY <3>1, <3>2 DEF Moved
  <2>3. CASE view[page].kind = "list"
    <3>1. Task(CallsFor(view[page].mine), NoCalls)
      BY <1>6, <2>3 DEF LeavePage, ReleasedOnLeave
    <3>2. CallsFor(view[page].mine) = CallsFor({t \in Servers : OfPage(t) = 1})
      BY <1>0, <2>3, PageShows DEF PageIsShown, CallsFor, Bit
    <3>. QED
      BY <2>2, <3>1, <3>2
  <2>4. CASE view[page].kind # "list"
    <3>1. PICK watched \in BOOLEAN :
            /\ Task(IF watched THEN One(route) ELSE NoCalls, NoCalls)
            /\ ~watched => "unwatched" \in mishaps'
      BY <1>6, <2>4 DEF LeavePage
    <3>2. CASE watched
      <4>1. One(route) = CallsFor({t \in Servers : OfPage(t) = 1})
        BY <1>0, <2>4, PageShows DEF PageIsShown, CallsFor, One, Bit
      <4>. QED
        BY <2>2, <3>1, <3>2, <4>1
    <3>3. CASE ~watched
      <4>1. subscriptions'[s] = Released(subscriptions[s], 0) + 0
        BY <3>1, <3>3 DEF Task, NoCalls
      <4>2. /\ 0 \in Nat /\ 0 <= OfPanel(s) + OfPage(s)
            /\ OfPanel(s)' + OfPage(s)' <= (OfPanel(s) + OfPage(s)) - 0 + 0
        BY <1>3, <1>4, <2>1
      <4>3. mishaps' # {}
        BY <3>1, <3>3
      <4>. QED
        BY <4>1, <4>2, <4>3 DEF Moved
    <3>. QED
      BY <3>2, <3>3
  <2>. QED
    BY <2>3, <2>4
<1>. QED
  BY <1>5, <1>6

\* Mounting a page takes what it shows from then on.
LEMMA MountMoves ==
  ASSUME ViewInv, ViewInv', NEW p \in Pages, MountPage(p), NEW s \in Servers
  PROVE  Moved(s)
<1>. DEFINE kind == IF route = "lists" THEN "list" ELSE "detail"
            held == IF kind = "list" THEN known ELSE {route}
<1>0. /\ page = NoPage /\ page' = p /\ p # NoPage /\ p # Panel
      /\ p \in Views /\ Panel \in Views
      /\ view \in [Views -> ViewRecords]
      /\ view[p].phase = "new" /\ view[p].mine = {}
      /\ UNCHANGED <<route, known>>
  BY ViewAssumption DEF MountPage, ViewInv, ViewTypeOK, ViewShape, ViewRecords, Views
<1>1. OfPage(s) = 0
  BY <1>0 DEF OfPage, Bit
<1>2. OfPage(s)' = Bit(IF view'[p].kind = "list" THEN s \in view'[p].mine
                       ELSE view'[p].phase = "mounted" /\ s = route)
  <2>1. PageIsShown'
    BY PageShows, PTL
  <2>. QED
    BY <1>0, <2>1 DEF PageIsShown
<1>3. OfPanel(s)' = OfPanel(s)
  <2>1. view'[Panel].mine = view[Panel].mine
    BY <1>0 DEF MountPage
  <2>. QED
    BY <2>1 DEF OfPanel
<1>4. CASE known = {}
  <2>1. /\ view' = [view EXCEPT ![p] = [@ EXCEPT !.kind = kind, !.phase = "fetching"]]
        /\ UNCHANGED subVars
    BY <1>4 DEF MountPage
  <2>2. view'[p].mine = {} /\ view'[p].phase = "fetching"
    BY <1>0, <2>1 DEF ViewRecords
  <2>3. OfPage(s)' = 0 /\ subscriptions' = subscriptions
    BY <1>2, <2>1, <2>2 DEF Bit, subVars
  <2>. QED
    BY <1>1, <1>3, <2>3, NothingMoves
<1>5. CASE known # {}
  <2>1. /\ view' = [view EXCEPT ![p] = [kind |-> kind, phase |-> "mounted",
                                        mine |-> IF kind = "list" THEN known ELSE {}]]
        /\ Task(NoCalls, CallsFor(held))
    BY <1>5 DEF MountPage
  <2>2. view'[p] = [kind |-> kind, phase |-> "mounted",
                    mine |-> IF kind = "list" THEN known ELSE {}]
    BY <1>0, <2>1
  <2>3. OfPage(s)' = Bit(s \in held)
    BY <1>2, <2>2
  <2>4. subscriptions'[s] = Released(subscriptions[s], 0) + Bit(s \in held)
    BY <2>1 DEF Task, NoCalls, CallsFor, Bit
  <2>5. OfPanel(s) \in Nat /\ Bit(s \in held) \in Nat /\ 0 \in Nat
    BY DEF OfPanel, Bit
  <2>6. /\ 0 <= OfPanel(s) + OfPage(s)
        /\ OfPanel(s)' + OfPage(s)'
             = (OfPanel(s) + OfPage(s)) - 0 + Bit(s \in held)
        /\ OfPanel(s)' + OfPage(s)'
             <= (OfPanel(s) + OfPage(s)) - 0 + Bit(s \in held)
    BY <1>1, <1>3, <2>3, <2>5
  <2>. QED
    BY <2>4, <2>5, <2>6 DEF Moved
<1>. QED
  BY <1>4, <1>5

\* A new list, whoever fetched it: what lists on screen release and take, and,
\* for a detail page that was waiting for it, the server of the route.
LEMMA SyncMoves ==
  ASSUME ViewInv, ViewInv', NEW s \in Servers, NEW ids \in SUBSET Servers,
         NEW syncing \in SUBSET LiveLists, NEW own \in Nat,
         UNCHANGED <<page, route>>,
         \A v \in Views : /\ view'[v].kind = view[v].kind
                          /\ view'[v].mine = Synced(syncing, ids)[v].mine,
         page # NoPage /\ view[page].kind # "list" =>
           Bit(view'[page].phase = "mounted" /\ s = route)
             = Bit(view[page].phase = "mounted" /\ s = route) + own,
         page = NoPage \/ view[page].kind = "list" => own = 0,
         subscriptions'[s] = Released(subscriptions[s], Lost(syncing, ids)[s])
                               + (Gained(syncing, ids)[s] + own)
  PROVE  Moved(s)
<1>. DEFINE lost == Lost(syncing, ids)[s]
            gained == Gained(syncing, ids)[s]
            held == Bit(page \in LiveLists /\ s \in view[page].mine)
            holds == Bit(page \in LiveLists /\ s \in Synced(syncing, ids)[page].mine)
            had == Bit(page # NoPage /\ view[page].kind # "list"
                         /\ view[page].phase = "mounted" /\ s = route)
<1>1. /\ lost \in Nat /\ gained \in Nat /\ lost <= OfPanel(s) + held
      /\ Bit(s \in Synced(syncing, ids)[Panel].mine) + holds
           = (OfPanel(s) + held) - lost + gained
  <2>1. /\ lost \in Nat /\ gained \in Nat /\ lost <= OfPanel(s) + held
        /\ Bit(s \in Synced(syncing, ids)[Panel].mine) + holds
             = OfPanel(s) + held - lost + gained
    BY SyncCounts
  <2>2. OfPanel(s) \in Nat /\ held \in Nat
    BY DEF OfPanel, Bit
  <2>. HIDE DEF held, holds, lost, gained
  <2>. QED
    BY <2>1, <2>2
<1>2. /\ page \in LiveLists <=> page # NoPage /\ view[page].kind = "list"
      /\ Panel \in Views
      /\ page # NoPage => page \in Views
  BY FewLists DEF Views
<1>3. OfPanel(s)' = Bit(s \in Synced(syncing, ids)[Panel].mine)
  BY <1>2 DEF OfPanel
<1>4. OfPage(s) = held + had
  BY <1>2, PageShows DEF PageIsShown, Bit
<1>5. OfPage(s)' = holds + had + own
  <2>1. PageIsShown'
    BY PageShows, PTL
  <2>2. OfPage(s)' = Bit(page # NoPage /\ IF view'[page].kind = "list"
                                     THEN s \in view'[page].mine
                                     ELSE view'[page].phase = "mounted" /\ s = route)
    BY <2>1 DEF PageIsShown
  <2>. QED
    BY <1>2, <2>2 DEF Bit
<1>6. /\ OfPanel(s) \in Nat /\ held \in Nat /\ holds \in Nat /\ had \in Nat
      /\ Bit(s \in Synced(syncing, ids)[Panel].mine) \in Nat
  BY DEF OfPanel, Bit
<1>7. subscriptions'[s] = Released(subscriptions[s], lost) + (gained + own)
  OBVIOUS
<1>. HIDE DEF lost, gained, held, holds, had
<1>8. /\ lost <= OfPanel(s) + OfPage(s) /\ gained + own \in Nat
      /\ OfPanel(s)' + OfPage(s)' = (OfPanel(s) + OfPage(s)) - lost + (gained + own)
      /\ OfPanel(s)' + OfPage(s)' <= (OfPanel(s) + OfPage(s)) - lost + (gained + own)
  BY <1>1, <1>3, <1>4, <1>5, <1>6
<1>. QED
  BY <1>1, <1>7, <1>8 DEF Moved

\* fetchAll() of a view that was not left early.
LEMMA FetchMoves ==
  ASSUME ViewInv, ViewInv', "early" \notin mishaps', NEW v \in Views,
         FetchResolves(v), NEW s \in Servers
  PROVE  Moved(s)
<1>. DEFINE isList == view[v].kind = "list"
            call == IF ~isList /\ route \in Servers THEN One(route) ELSE NoCalls
            syncing(ids) == Watching(ids) \cup (IF isList THEN {v} ELSE {})
<1>1. PICK ids \in Answers :
        /\ Task(Lost(syncing(ids), ids), Sum2(Gained(syncing(ids), ids), call))
        /\ view' = [Synced(syncing(ids), ids) EXCEPT ![v].phase =
                      IF @ = "fetching" THEN "mounted" ELSE "gone"]
  BY DEF FetchResolves
<1>2. /\ Pending(v) /\ UNCHANGED <<route, page, mishaps>>
      /\ ids \in SUBSET Servers
  BY DEF FetchResolves, Answers, ViewInv, ViewTypeOK
<1>3. view[v].phase = "fetching"
  BY <1>2 DEF Pending, ViewInv, ViewShape
<1>4. v = Panel \/ (v = page /\ page # NoPage)
  BY <1>3, FewLists DEF ViewInv, ViewTypeOK, Views, Alive
<1>5. syncing(ids) \in SUBSET LiveLists
  BY <1>3 DEF Watching, LiveLists, Alive
<1>. DEFINE sync == Synced(syncing(ids), ids)
            own == call[s]
<1>6. /\ sync \in [Views -> ViewRecords]
      /\ \A u \in Views : sync[u].kind = view[u].kind /\ sync[u].phase = view[u].phase
  BY <1>2, SyncedViews DEF ViewRecords
<1>7. view' = [sync EXCEPT ![v].phase = IF @ = "fetching" THEN "mounted" ELSE "gone"]
  BY <1>1
<1>8. own = Bit(~isList /\ s = route)
  BY DEF One, NoCalls, Bit
<1>9. subscriptions'[s] = Released(subscriptions[s], Lost(syncing(ids), ids)[s])
                            + (Gained(syncing(ids), ids)[s] + own)
  BY <1>1 DEF Task, Sum2
<1>10. view[Panel].kind = "list" /\ Panel # page /\ (page # NoPage => page \in Views)
  BY FewLists DEF ViewInv, ViewShape, Views
<1>. DEFINE set == syncing(ids)
<1>11. /\ set \in SUBSET LiveLists /\ sync = Synced(set, ids)
       /\ subscriptions'[s] = Released(subscriptions[s], Lost(set, ids)[s])
                                + (Gained(set, ids)[s] + own)
  BY <1>5, <1>9
<1>. HIDE DEF sync, own, isList, set
<1>12. \A u \in Views : /\ view'[u].kind = view[u].kind
                        /\ view'[u].mine = sync[u].mine
                        /\ view'[u].phase = IF u = v THEN "mounted" ELSE view[u].phase
  BY <1>3, <1>6, <1>7 DEF ViewRecords
<1>13. own \in Nat
  BY <1>8 DEF Bit
<1>14. page = NoPage \/ view[page].kind = "list" => own = 0
  BY <1>4, <1>8, <1>10 DEF isList, Bit
<1>15. page # NoPage /\ view[page].kind # "list" =>
         Bit(view'[page].phase = "mounted" /\ s = route)
           = Bit(view[page].phase = "mounted" /\ s = route) + own
  BY <1>3, <1>4, <1>8, <1>10, <1>12 DEF isList, Bit
<1>16. \A u \in Views : /\ view'[u].kind = view[u].kind
                        /\ view'[u].mine = Synced(set, ids)[u].mine
  BY <1>11, <1>12
<1>. QED
  BY <1>2, <1>11, <1>13, <1>14, <1>15, <1>16, SyncMoves

LEMMA ListMoves ==
  ASSUME ViewInv, ViewInv', NEW ids \in SUBSET Servers, ListBecomes(ids),
         NEW s \in Servers
  PROVE  Moved(s)
<1>1. /\ UNCHANGED <<page, route>>
      /\ view' = Synced(Watching(ids), ids)
      /\ Task(Lost(Watching(ids), ids), Gained(Watching(ids), ids))
      /\ Watching(ids) \in SUBSET LiveLists
  BY DEF ListBecomes, Watching
<1>2. \A v \in Views : /\ view'[v].kind = view[v].kind
                       /\ view'[v].phase = view[v].phase
                       /\ view'[v].mine = Synced(Watching(ids), ids)[v].mine
  BY <1>1, SyncedViews
<1>3. Gained(Watching(ids), ids)[s] \in Nat
  BY <1>1, SyncCounts
<1>4. subscriptions'[s] = Released(subscriptions[s], Lost(Watching(ids), ids)[s])
                            + (Gained(Watching(ids), ids)[s] + 0)
  BY <1>1, <1>3 DEF Task
<1>5. page # NoPage => page \in Views
  BY FewLists DEF Views
<1>6. page # NoPage /\ view[page].kind # "list" =>
         Bit(view'[page].phase = "mounted" /\ s = route)
           = Bit(view[page].phase = "mounted" /\ s = route) + 0
  BY <1>2, <1>5 DEF Bit
<1>. QED
  BY <1>1, <1>2, <1>4, <1>6, SyncMoves

LEMMA CountInductive ==
  ASSUME ViewInv, ViewInv', CountInv, [ViewNext]_allVars
  PROVE  CountInv'
<1>. SUFFICES ASSUME "early" \notin mishaps', NEW s \in Servers
              PROVE  Moved(s)
  BY MishapsStay, MovedKeepsCount
<1>1. ASSUME NEW to \in Routes, SwitchServer(to) \/ LeavePage(to)
      PROVE  Moved(s)
  BY <1>1, NavigationMoves
<1>2. ASSUME UNCHANGED <<subscriptions, route, page, view>>
      PROVE  Moved(s)
  BY <1>2, NothingMoves DEF OfPanel, OfPage, Shows, Alive
<1>3. ASSUME NEW to \in Routes, Wander(to)
      PROVE  Moved(s)
  <2>1. page = NoPage /\ UNCHANGED <<subscriptions, page, view>>
    BY <1>3 DEF Wander, subVars
  <2>. QED
    BY <2>1, NothingMoves DEF OfPanel, OfPage
<1>4. ASSUME NEW p \in Pages, MountPage(p)
      PROVE  Moved(s)
  BY <1>4, MountMoves
<1>5. ASSUME NEW v \in Views, FetchResolves(v)
      PROVE  Moved(s)
  BY <1>5, FetchMoves
<1>6. CASE RefreshPage
  <2>1. /\ page # NoPage /\ page \in Views /\ Panel \in Views
        /\ view[page].kind = "list" /\ view[page].phase = "mounted"
        /\ view' = [view EXCEPT ![page].phase = "fetching"]
        /\ view \in [Views -> ViewRecords]
        /\ UNCHANGED <<subscriptions, page>>
    BY <1>6, FewLists DEF RefreshPage, subVars, Views, ViewInv, ViewTypeOK, ViewRecords
  <2>2. /\ view'[Panel].mine = view[Panel].mine
        /\ view'[page].mine = view[page].mine
        /\ view'[page].kind = "list" /\ view'[page].phase = "fetching"
    BY <2>1 DEF ViewRecords
  <2>3. Shows(page)' = view'[page].mine /\ Shows(page) = view[page].mine
    BY <2>1, <2>2 DEF Shows, Alive
  <2>. QED
    BY <2>1, <2>2, <2>3, NothingMoves DEF OfPanel, OfPage
<1>7. CASE Refresh
  BY <1>7, ListMoves DEF Refresh, ViewInv, ViewTypeOK
<1>8. ASSUME NEW t \in Servers, CreateServer(t) \/ RemoveServer(t)
      PROVE  Moved(s)
  BY <1>8, ListMoves DEF CreateServer, RemoveServer, ViewInv, ViewTypeOK
<1>9. ASSUME NEW t \in Servers, Backend(t), UNCHANGED viewVars
      PROVE  Moved(s)
  BY <1>2, <1>9 DEF Backend, rt_subscribe, rt_unsubscribe, Execute, viewVars
<1>10. CASE UNCHANGED allVars
  BY <1>2, <1>10 DEF allVars, subVars, viewVars
<1>. QED
  BY <1>1, <1>3, <1>4, <1>5, <1>6, <1>7, <1>8, <1>9, <1>10 DEF ViewNext

THEOREM CountInvariant == ViewSpec => [](ViewInv /\ CountInv)
<1>1. ViewInit => CountInv
  <2>. SUFFICES ASSUME ViewInit, NEW s \in Servers
                PROVE  OfPanel(s) = 0 /\ OfPage(s) = 0 /\ subscriptions[s] = 0
    BY DEF CountInv
  <2>1. view[Panel].mine = {} /\ page = NoPage
    BY DEF ViewInit, Views
  <2>. QED
    BY <2>1 DEF ViewInit, SubInit, NoCalls, OfPanel, OfPage, Bit
<1>2. ViewInv /\ ViewInv' /\ CountInv /\ [ViewNext]_allVars => CountInv'
  BY CountInductive
<1>. QED
  BY <1>1, <1>2, ViewInvariant, PTL DEF ViewSpec

\* stores/realtime.js: views subscribe on mount and unsubscribe on unmount.
\* Whatever is navigated, fetched, created and removed, the count of a server
\* is the number of views on screen that show it, until a page is left while
\* it fetches or before its watcher ran.
THEOREM CountsStayExact == ViewSpec => []CountsAreExact
<1>1. ViewInv /\ CountInv => CountsAreExact
  BY ShownCount DEF CountsAreExact, CountInv
<1>. QED
  BY <1>1, CountInvariant, PTL

\* ServerListPanel.vue: no page takes from the panel the servers it shows, not
\* even one whose watcher did not run.
THEOREM PanelKeepsLive == ViewSpec => []PanelStaysLive
<1>1. ViewInv /\ CountInv => PanelStaysLive
  <2>. SUFFICES ASSUME ViewInv, CountInv, "early" \notin mishaps,
                       NEW s \in view[Panel].mine
                PROVE  subscriptions[s] > 0
    BY DEF PanelStaysLive, LivePanel
  <2>1. s \in Servers /\ subscriptions[s] \in Nat
    BY DEF ViewInv, ViewTypeOK, SubTypeOK, Views
  <2>2. OfPanel(s) = 1 /\ OfPage(s) \in Nat
    BY DEF OfPanel, OfPage, Bit
  <2>. QED
    BY <2>1, <2>2 DEF CountInv
<1>. QED
  BY <1>1, CountInvariant, PTL

\* From the views to the backend, through the counts of the store and the calls
\* in order: what is polled is what is on screen.
THEOREM ShownIsPolled == ViewSpec => []PolledIffShown
<1>1. ViewInv /\ CountsAreExact /\ InStep => PolledIffShown
  <2>. SUFFICES ASSUME ViewInv, CountsAreExact, InStep, mishaps = {}, tidy,
                       \A s \in Servers : Idle(s)
                PROVE  {s \in Servers : pollers[s] > 0} = UNION {Shows(v) : v \in Views}
    BY DEF PolledIffShown
  <2>1. ASSUME NEW s \in Servers
        PROVE  pollers[s] > 0 <=> \E v \in Views : s \in Shows(v)
    <3>. DEFINE S == {v \in Views : s \in Shows(v)}
    <3>1. pollers[s] > 0 <=> subscriptions[s] > 0
      BY DEF InStep, Linked, Idle, Held
    <3>2. subscriptions[s] = Cardinality(S)
      BY DEF CountsAreExact
    <3>3. IsFiniteSet(S)
      <4>1. S \in SUBSET {Panel, page} /\ Panel # page
        BY FewLists DEF Shows, Views, ViewInv, ViewTypeOK
      <4>. HIDE DEF S
      <4>. QED
        BY <4>1, PairCount
    <3>4. Cardinality(S) \in Nat /\ (Cardinality(S) = 0 <=> S = {})
      BY <3>3, FS_CardinalityType, FS_EmptySet
    <3>5. Cardinality(S) > 0 <=> S # {}
      BY <3>4
    <3>. QED
      BY <3>1, <3>2, <3>5
  <2>2. \A v \in Views : Shows(v) \subseteq Servers
    BY DEF Shows, ViewInv, ViewTypeOK
  <2>. QED
    BY <2>1, <2>2
<1>2. ViewSpec => []InStep
  BY ViewsUseTheStore, InStepInvariant
<1>. QED
  BY <1>1, <1>2, ViewInvariant, CountsStayExact, PTL
=============================================================================
