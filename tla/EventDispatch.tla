--------------------------- MODULE EventDispatch ---------------------------
(***************************************************************************)
(* events.py: who is told what, in which order and on whose behalf.        *)
(*                                                                         *)
(* A context is a thread or task with its own copy of the context          *)
(* variables _SUBSCRIBERS and _SCOPE.  Emission is a call: the dispatcher's *)
(* lock is held while the observers are told one after the other, and an   *)
(* observer may raise, interrupt, emit on the same dispatcher or close its *)
(* own handle.  The modules that emit own the rest of the steps.           *)
(***************************************************************************)
EXTENDS Integers, Sequences, FiniteSets

CONSTANTS
  Contexts,     \* threads and tasks
  Locals,       \* local_observers of every dispatcher, in order
  Subscribers,  \* the observers that subscribe
  Policy,       \* on_error of each observer: "raise", "warn" or "ignore"
  Fields,       \* the correlation fields a scope may fill in (engine, step_id...)
  None,
  MaxTricks     \* how often observers do anything but return

ASSUME DispatchAssumption == None \notin Contexts

VARIABLES
  subscribers,  \* _SUBSCRIBERS as each context sees it
  closed,       \* the context each handle was closed in, or None
  scopes,       \* _SCOPE of each context: the current scope last
  dispatcher,   \* the dispatcher of the run, or None
  number,       \* _sequence
  lock,         \* the context that holds _lock, or None
  calls,        \* each context's emissions in progress, the innermost last
  heard,        \* how many events each observer was told, the number of the last,
                \* and whether one came late, behind one with a higher number
  nested,       \* the observers that emitted
  missed,       \* how many events each observer missed, their delivery interrupted
  tricks

subscription == <<subscribers, closed>>
delivery == <<number, lock, calls, heard, nested, missed, tricks>>
dispatchVars == <<subscription, scopes, dispatcher, delivery>>

Observers == Subscribers \cup {Locals[i] : i \in DOMAIN Locals}

Top(s) == s[Len(s)]
Below(s) == SubSeq(s, 1, Len(s) - 1)
Holds(s, x) == \E i \in DOMAIN s : s[i] = x

\* The elements of a set of numbers, in order; a sequence without an element
Rank(S, i) == Cardinality({j \in S : j < i})
Ascending(S) == [k \in 1..Cardinality(S) |-> CHOOSE i \in S : Rank(S, i) = k - 1]
Without(s, x) ==
  LET kept == Ascending({i \in DOMAIN s : s[i] # x}) IN [k \in DOMAIN kept |-> s[kept[k]]]

----------------------------------------------------------------------------
(* Subscriptions *)

\* subscribe: a new tuple, in the context of the call only.
Subscribe(c, o) ==
  /\ closed[o] = None /\ ~Holds(subscribers[c], o)
  /\ subscribers' = [subscribers EXCEPT ![c] = Append(@, o)]
  /\ UNCHANGED closed

\* ObserverHandle.close: the tuple of the calling context is filtered; a
\* second call, in whatever context, does nothing.
Close(c, o) ==
  IF closed[o] # None THEN UNCHANGED subscription
  ELSE /\ closed' = [closed EXCEPT ![o] = c]
       /\ subscribers' = [subscribers EXCEPT ![c] = Without(@, o)]

----------------------------------------------------------------------------
(* Scopes *)

NoScope == [execution |-> None, stage |-> None, parent |-> None,
            fields |-> [f \in Fields |-> None]]

Scope(c) == IF scopes[c] = <<>> THEN NoScope ELSE Top(scopes[c])
Given(x, y) == IF x # None THEN x ELSE y

\* Mutant: fields that are not given are cleared.
EnteredBare(c, d, stage, parent, fields) ==
  [execution |-> d.execution, stage |-> Given(stage, d.stage),
   parent |-> parent, fields |-> fields]

\* _event_scope: what is not given is taken from the scope around it.
Entered(c, d, stage, parent, fields) ==
  [execution |-> d.execution,
   stage |-> Given(stage, Given(Scope(c).stage, d.stage)),
   parent |-> Given(parent, Scope(c).parent),
   fields |-> [f \in Fields |-> Given(fields[f], Scope(c).fields[f])]]

EnterScope(c, d, stage, parent, fields) ==
  scopes' = [scopes EXCEPT ![c] = Append(@, Entered(c, d, stage, parent, fields))]

ExitScopes(c) == scopes' = [scopes EXCEPT ![c] = <<>>]

\* _dispatcher: the scope around it is its parent; the subscribers are those
\* of the moment.
Dispatcher(c, execution) ==
  [execution |-> execution, parent |-> Scope(c).execution,
   stage |-> Scope(c).stage, told |-> Locals \o subscribers[c]]

----------------------------------------------------------------------------
(* Emission *)

\* emit fills in what the event leaves open, from the scope of the emitting
\* context and then from the dispatcher.
Stamp(c, e) ==
  [e EXCEPT !.stage = Given(@, Given(Scope(c).stage, dispatcher.stage)),
            !.parent = Given(@, Given(Scope(c).parent, dispatcher.parent)),
            !.fields = [f \in Fields |-> Given(@[f], Scope(c).fields[f])]]

Frame(c, e, by) ==
  [event |-> Stamp(c, e), number |-> number, todo |-> dispatcher.told,
   failed |-> FALSE, by |-> by]

Idle(c) == calls[c] = <<>>

\* Mutant: a second context need not wait for the first.
EmitUnlocked(c, e, by) ==
  /\ lock' = c
  /\ number' = number + 1
  /\ calls' = [calls EXCEPT ![c] = Append(@, Frame(c, e, by))]
  /\ UNCHANGED <<subscription, heard, nested, missed, tricks>>

\* The lock is taken, again by an observer that emits; the event is numbered.
Emit(c, e, by) ==
  /\ lock \in {None, c}
  /\ lock' = c
  /\ number' = number + 1
  /\ calls' = [calls EXCEPT ![c] = Append(@, Frame(c, e, by))]
  /\ UNCHANGED <<subscription, heard, nested, missed, tricks>>

Telling(c) == ~Idle(c) /\ Top(calls[c]).todo # <<>>
Told(c) == ~Idle(c) /\ Top(calls[c]).todo = <<>>

\* The first observer still to be told hears the event.
Hear(c) ==
  heard' = [heard EXCEPT ![Head(Top(calls[c]).todo)] =
    [count |-> @.count + 1, last |-> Top(calls[c]).number,
     late |-> @.late \/ (@.count > 0 /\ @.last > Top(calls[c]).number)]]

WithTop(c, frame) == [calls EXCEPT ![c] = Append(Below(@), frame)]
After(c) == [Top(calls[c]) EXCEPT !.todo = Tail(@)]

Returns(c) ==
  /\ Telling(c) /\ Hear(c)
  /\ calls' = WithTop(c, After(c))
  /\ UNCHANGED <<subscription, number, lock, nested, missed, tricks>>

Trick(c) == Telling(c) /\ tricks < MaxTricks /\ tricks' = tricks + 1 /\ Hear(c)

\* Mutant: the observers behind one that raises are not told.
FailureStops(frame, o) ==
  IF Policy[o] = "raise" THEN [frame EXCEPT !.failed = TRUE, !.todo = <<>>] ELSE frame

\* _deliver: an Exception is kept, or warned about, or dropped; the others are
\* told all the same.
Failure(frame, o) == IF Policy[o] = "raise" THEN [frame EXCEPT !.failed = TRUE] ELSE frame

Raises(c) ==
  /\ Trick(c)
  /\ calls' = WithTop(c, Failure(After(c), Head(Top(calls[c]).todo)))
  /\ UNCHANGED <<subscription, number, lock, nested, missed>>

\* A KeyboardInterrupt passes _deliver and every emission it is in.
Interrupts(c) ==
  /\ Trick(c)
  /\ missed' = [o \in Observers |-> missed[o] + Cardinality({i \in DOMAIN calls[c] :
                  Holds(IF i = Len(calls[c]) THEN After(c).todo ELSE calls[c][i].todo, o)})]
  /\ calls' = [calls EXCEPT ![c] = <<>>]
  /\ lock' = None
  /\ UNCHANGED <<subscription, number, nested>>

\* The observer emits an event of its own before it returns.
EmitsItself(c, e) ==
  LET o == Head(Top(calls[c]).todo) IN
  /\ Trick(c)
  /\ lock' = c
  /\ number' = number + 1
  /\ calls' = [calls EXCEPT ![c] = Append(Append(Below(@), After(c)), Frame(c, e, o))]
  /\ nested' = nested \cup {o}
  /\ UNCHANGED <<subscription, missed>>

\* The observer closes its handle, in the context that told it.
ClosesItself(c) ==
  /\ Trick(c)
  /\ Head(Top(calls[c]).todo) \in Subscribers
  /\ calls' = WithTop(c, After(c))
  /\ Close(c, Head(Top(calls[c]).todo))
  /\ UNCHANGED <<number, lock, nested, missed>>

\* emit returns or raises the first failure: into the observer that emitted,
\* which lets it through, or (Leave) to the caller.
NestedReturns(c) ==
  /\ Told(c) /\ Len(calls[c]) > 1
  /\ LET outer == Top(Below(calls[c])) IN
     calls' = [calls EXCEPT ![c] = Append(Below(Below(@)),
                 IF Top(@).failed THEN Failure(outer, Top(@).by) ELSE outer)]
  /\ UNCHANGED <<subscription, number, lock, heard, nested, missed, tricks>>

Leave(c) ==
  /\ Told(c) /\ Len(calls[c]) = 1
  /\ calls' = [calls EXCEPT ![c] = <<>>]
  /\ lock' = None
  /\ UNCHANGED <<subscription, number, heard, nested, missed, tricks>>

LeavesWith(c) == Top(calls[c]).failed

----------------------------------------------------------------------------
(* What the module promises whoever emits *)

DispatchInit ==
  /\ subscribers = [c \in Contexts |-> <<>>]
  /\ closed = [o \in Subscribers |-> None]
  /\ scopes = [c \in Contexts |-> <<>>]
  /\ dispatcher = None
  /\ number = 0 /\ lock = None /\ nested = {} /\ tricks = 0
  /\ calls = [c \in Contexts |-> <<>>]
  /\ heard = [o \in Observers |-> [count |-> 0, last |-> 0, late |-> FALSE]]
  /\ missed = [o \in Observers |-> 0]

Position(o) == CHOOSE i \in DOMAIN dispatcher.told : dispatcher.told[i] = o

\* While nobody emits, every observer of the run was told as many events as
\* were emitted, whatever the others did, those apart whose delivery was
\* interrupted before it (emit, _deliver).
EachIsTold ==
  dispatcher # None /\ lock = None =>
    \A i \in DOMAIN dispatcher.told :
      heard[dispatcher.told[i]].count + missed[dispatcher.told[i]] = number

\* An observer is told an event late only if one before it in the list emitted
\* while it was being told (emit under an RLock).
LateNeedsNesting ==
  dispatcher # None =>
    \A i \in DOMAIN dispatcher.told :
      heard[dispatcher.told[i]].late => \E o \in nested : Position(o) < i

=============================================================================
