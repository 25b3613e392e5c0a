---------------------------- MODULE OrderService ----------------------------
(***************************************************************************)
(* The order example served over HTTP: the tower stack (timeout around a   *)
(* concurrency limit), the routes, dispatch, OrderHandlers over a          *)
(* Repository, the Order aggregate and save_and_publish.                   *)
(*                                                                         *)
(* A request pauses at the awaits of its handler: before find_by_id,       *)
(* before save and before the event is published.  The timeout drops its   *)
(* future at any of them; it does not run while the request waits for a    *)
(* permit, because tower's Timeout starts its clock in call.               *)
(*                                                                         *)
(* history, who wrote which version of an order, is kept for the           *)
(* properties.                                                             *)
(*                                                                         *)
(* The operators named Mut... are plausible defects of the definition that *)
(* follows them; they are not part of the specification.                   *)
(***************************************************************************)
EXTENDS Naturals, Sequences, Dispatch

CONSTANTS
  OrderId,
  MaxRequests,  \* bound: requests received
  Items,      \* the items a request may add, [price, quantity, valid, finite]
  Permits,    \* GlobalConcurrencyLimitLayer
  MaxCents    \* the largest amount of Money's u64 cents

ASSUME OrderAssumption ==
  /\ {Permits, MaxRequests} \subseteq Nat \ {0} /\ MaxCents \in Nat
  /\ Items \subseteq [price : Nat, quantity : Nat, valid : BOOLEAN, finite : BOOLEAN]

VARIABLES
  store,      \* the repository; version 0: no such order
  req,        \* the requests
  permits,    \* permits left
  published,  \* events the bus has handled, [order, version]
  history,    \* [OrderId -> Seq([by, event, total])]
  checked     \* built with overflow checks (debug) or without (release)

vars == <<store, req, permits, published, history, checked>>

\* Requests are numbered as they arrive.
Request == 1..MaxRequests
Commands == {"CreateOrder", "AddItem", "ConfirmOrder"}

\* The declarations of the commands; only AddItem has garde rules.
Declared(c) ==
  [shape |-> "named", options |-> {},
   fields |-> IF c = "AddItem" THEN <<"skip", "rule", "rule", "rule">> ELSE <<"none">>]

\* An item that breaks no garde rule is valid; its price may still be no number
\* that Money::brl takes.
NoItem == [price |-> 0, quantity |-> 0, valid |-> TRUE, finite |-> TRUE]
NoOrder == [version |-> 0, items |-> <<>>, status |-> "Draft"]
Idle == [phase |-> "idle", command |-> "none", order |-> "none", item |-> NoItem,
         copy |-> NoOrder, answer |-> 0]

Init ==
  /\ store = [o \in OrderId |-> NoOrder]
  /\ req = [r \in Request |-> Idle]
  /\ permits = Permits /\ published = {} /\ checked \in BOOLEAN
  /\ history = [o \in OrderId |-> <<>>]

-----------------------------------------------------------------------------
(* The Order aggregate *)

\* Money::mul and Money::add: a panic in a checked build, else they wrap.
Fits(n) == n <= MaxCents
Wrapped(n) == n % (MaxCents + 1)
Subtotal(i) == i.price * i.quantity
Sum(items) ==
  LET sum[n \in 0..Len(items)] == IF n = 0 THEN 0 ELSE sum[n - 1] + Subtotal(items[n])
  IN sum[Len(items)]
Total(items) ==
  LET total[n \in 0..Len(items)] ==
        IF n = 0 THEN 0 ELSE Wrapped(total[n - 1] + Wrapped(Subtotal(items[n])))
  IN total[Len(items)]
Panics(items) == checked /\ ~Fits(Sum(items))

\* create, add_item and confirm on a loaded copy: [error, copy, total].
Done(copy, total) == [error |-> "none", copy |-> copy, total |-> total]
Rejected(error, copy) == [error |-> error, copy |-> copy, total |-> 0]

Create(copy) == Done(copy, 0)
\* Quantity::new and Money::brl come first.
AddItem(copy, item) ==
  IF item.quantity = 0 \/ ~item.finite THEN Rejected("DomainValidation", copy)
  ELSE IF copy.status # "Draft" THEN Rejected("BusinessRule", copy)
  ELSE Done([copy EXCEPT !.items = Append(@, [price |-> item.price, quantity |-> item.quantity])], 0)
Confirm(copy) ==
  CASE copy.status # "Draft" \/ copy.items = <<>> -> Rejected("BusinessRule", copy)
    [] OTHER -> IF Panics(copy.items) THEN Rejected("panic", copy)
                ELSE Done([copy EXCEPT !.status = "Confirmed"], Total(copy.items))

Apply(r) ==
  CASE req[r].command = "CreateOrder" -> Create(req[r].copy)
    [] req[r].command = "AddItem" -> AddItem(req[r].copy, req[r].item)
    [] OTHER -> Confirm(req[r].copy)

-----------------------------------------------------------------------------
(* The middleware *)

\* ApiError::into_response and the routes' success statuses; a panic ends the
\* connection's task, and no response is sent.
MutStatus(error, command) ==
  CASE error = "none" -> IF command = "CreateOrder" THEN 200 ELSE 204
    [] error = "NotFound" -> 404
    [] error = "DomainValidation" -> 400
    [] error \in {"BusinessRule", "Infra"} -> 409
    [] error = "Validation" -> 422
    [] OTHER -> 500
Status(error, command) ==
  CASE error = "none" -> IF command \in {"CreateOrder", "GetOrderTotal"} THEN 200 ELSE 204
    [] error = "NotFound" -> 404
    [] error = "DomainValidation" -> 400
    [] error = "BusinessRule" -> 409
    [] error = "Validation" -> 422
    [] error = "panic" -> 0
    [] OTHER -> 500

Answered(r, answer) ==
  [req[r] EXCEPT !.phase = "done", !.answer = answer, !.item = NoItem, !.copy = NoOrder]

\* The handler's future ends and gives its permit back.
Finish(r, error) ==
  /\ req' = [req EXCEPT ![r] = Answered(r, Status(error, req[r].command))]
  /\ permits' = permits + 1

Send(r, command, o, item) ==
  /\ req[r].phase = "idle" /\ \A q \in 1..(r - 1) : req[q].phase # "idle"
  /\ req' = [req EXCEPT ![r] = [Idle EXCEPT !.phase = "queued", !.command = command,
                                            !.order = o, !.item = item]]
  /\ UNCHANGED <<store, permits, published, history, checked>>

\* The semaphore serves its waiters in order.
Admit(r) ==
  /\ req[r].phase = "queued" /\ permits > 0 /\ \A q \in 1..(r - 1) : req[q].phase # "queued"
  /\ permits' = permits - 1
  /\ req' = [req EXCEPT ![r].phase = "called"]
  /\ UNCHANGED <<store, published, history, checked>>

\* Elapsed: the future is dropped where it waits, with its permit.
InFlight(r) == req[r].phase \in {"called", "loaded", "saved"}
MutTimeout(r) ==
  /\ InFlight(r)
  /\ req' = [req EXCEPT ![r] = Answered(r, 408)]
  /\ UNCHANGED <<store, permits, published, history, checked>>
Timeout(r) ==
  /\ InFlight(r)
  /\ req' = [req EXCEPT ![r] = Answered(r, 408)]
  /\ permits' = permits + 1
  /\ UNCHANGED <<store, published, history, checked>>

-----------------------------------------------------------------------------
(* The handlers *)

\* What dispatch makes of the command; an invalid item breaks the rule of its
\* third field, the quantity.
Valid(r) == StateDispatch(Declared(req[r].command), IF req[r].item.valid THEN {} ELSE {3})

\* dispatch, and load for all commands but CreateOrder, which has a fresh id.
Load(r) ==
  LET o == req[r].order
      error == CASE ~Valid(r) -> "Validation"
                 [] req[r].command # "CreateOrder" /\ store[o].version = 0 -> "NotFound"
                 [] OTHER -> "none"
  IN /\ req[r].phase = "called" /\ req[r].command \in Commands
     /\ IF error = "none"
        THEN /\ req' = [req EXCEPT ![r].phase = "loaded",
                                   ![r].copy = IF req[r].command = "CreateOrder" THEN NoOrder
                                               ELSE store[o]]
             /\ UNCHANGED permits
        ELSE Finish(r, error)
     /\ UNCHANGED <<store, published, history, checked>>

\* The aggregate's method, then Repository::save, which checks the version and
\* writes under the entry's lock.
MutConflicts(o, copy) == FALSE
Conflicts(o, copy) == store[o].version # copy.version

Save(r) ==
  LET o == req[r].order
      result == Apply(r)
      next == [result.copy EXCEPT !.version = @ + 1]
  IN /\ req[r].phase = "loaded"
     /\ \/ /\ result.error # "none"
           /\ Finish(r, result.error)
           /\ UNCHANGED <<store, history>>
        \/ /\ result.error = "none" /\ Conflicts(o, result.copy)
           /\ Finish(r, "Infra")
           /\ UNCHANGED <<store, history>>
        \/ /\ result.error = "none" /\ ~Conflicts(o, result.copy)
           /\ store' = [store EXCEPT ![o] = next]
           /\ history' = [history EXCEPT ![o] =
                Append(@, [by |-> r, event |-> req[r].command, total |-> result.total])]
           /\ req' = [req EXCEPT ![r].phase = "saved", ![r].copy = next]
           /\ UNCHANGED permits
     /\ UNCHANGED <<published, checked>>

\* publish_batch: the one pending event; on an error it goes back to an
\* aggregate that the handler then drops.
Publish(r, ok) ==
  /\ req[r].phase = "saved"
  /\ published' = IF ok
                  THEN published \cup {[order |-> req[r].order, version |-> req[r].copy.version]}
                  ELSE published
  /\ Finish(r, IF ok THEN "none" ELSE "Infra")
  /\ UNCHANGED <<store, history, checked>>

\* GetOrderTotalHandler
OrderTotal(r) ==
  /\ req[r].phase = "called" /\ req[r].command = "GetOrderTotal"
  /\ Finish(r, IF Panics(store[req[r].order].items) THEN "panic" ELSE "none")
  /\ UNCHANGED <<store, published, history, checked>>
-----------------------------------------------------------------------------

\* OrderId::new is fresh; the other commands name any order.
Fresh(o) == store[o].version = 0 /\ \A q \in Request : req[q].command = "CreateOrder" => req[q].order # o

SendAny(r) ==
  \E o \in OrderId :
    \/ Fresh(o) /\ Send(r, "CreateOrder", o, NoItem)
    \/ \E i \in Items : Send(r, "AddItem", o, i)
    \/ \E c \in {"ConfirmOrder", "GetOrderTotal"} : Send(r, c, o, NoItem)

Step(r) ==
  \/ Load(r) \/ Save(r) \/ OrderTotal(r)
  \/ \E ok \in BOOLEAN : Publish(r, ok)

Next == \E r \in Request : SendAny(r) \/ Admit(r) \/ Step(r) \/ Timeout(r)

Spec == Init /\ [][Next]_vars

\* The semaphore wakes its waiters and the timer fires; a repository or an
\* event handler may hang.
FairSpec == Spec /\ \A r \in Request : WF_vars(Admit(r)) /\ WF_vars(Timeout(r))
-----------------------------------------------------------------------------
(* Properties *)

Versions(o) == DOMAIN history[o]
WroteBy(r) ==
  UNION {[order : {o}, version : {v \in Versions(o) : history[o][v].by = r}] : o \in OrderId}

Refusal == {400, 404, 409, 422}
Success == {200, 204}

\* A request answered 400, 404, 409 or 422 has changed nothing, whatever ran
\* beside it; a command answered 200 or 204 has written one version and its event
\* has been handled.  A version whose event was not handled is that of a request
\* that still runs, or was answered 408 or 500: no order changes without its
\* event under another answer.
TruthfulAnswer ==
  \A r \in Request :
    /\ req[r].answer \in Refusal => WroteBy(r) = {}
    /\ req[r].answer \in Success /\ req[r].command \in Commands =>
         \E w \in published : WroteBy(r) = {w}
    /\ WroteBy(r) \subseteq published \/ req[r].phase = "saved" \/ req[r].answer \in {408, 500}

\* A confirmation is the last version of its order, and the total it announced
\* is that of the items the order holds, whatever AddItem and ConfirmOrder ran
\* at the same time; only without overflow checks, and only past MaxCents, does
\* it announce less.
ConfirmedTotal ==
  \A o \in OrderId : \A v \in Versions(o) :
    history[o][v].event = "ConfirmOrder" =>
      /\ v = store[o].version /\ v = Len(history[o])
      /\ \/ history[o][v].total = Sum(store[o].items)
         \/ ~checked /\ ~Fits(Sum(store[o].items)) /\ history[o][v].total < Sum(store[o].items)

\* Every request ends, answered or with the panic that closes its connection,
\* though repositories and event handlers may hang and only so many requests are
\* let in at a time.
EveryoneAnswered == <>[](\A r \in Request : req[r].phase \in {"idle", "done"})
=============================================================================
