------------------------------ MODULE LiveOrders ------------------------------
(***************************************************************************)
(* brokers/zerodha_broker.py behind execution/safety_gate.py: the one path *)
(* of the program that can send an order to a broker.  A caller makes one  *)
(* call of a broker object at a time: the call passes the checks, Kite     *)
(* handles it, and its answer comes or is lost.  In between the            *)
(* environment of the process may change, and the exchange executes and    *)
(* cancels at its own time.                                                *)
(***************************************************************************)
EXTENDS Integers, Sequences

CONSTANTS
  ModeWords,      \* what the configuration or EXECUTION_MODE can say
  NoMode,         \* the variable or the setting is absent
  OrderCalls,     \* [symbol, side, halves, type, variety]: halves are half shares
  NoVariety,      \* the caller names none
  DefaultVariety,
  MaxOrders, MaxEnvChanges, MaxLogins   \* bounds: calls of place_order past the checks, ...

\* An absent setting is none of the modes; a call asks for no negative amount of
\* something that has a name.
ASSUME OrdersAssumption ==
  /\ NoMode \notin {"research", "paper", "live_safe", "live"}
  /\ \A c \in OrderCalls : c.halves \in Nat /\ c.symbol # ""

VARIABLES lo,        \* the broker object and its process: mode, enabled, env, authenticated, client
          call,      \* the call under way, or NoCall
          attempts,  \* what became of each call of place_order that passed the checks
          kite,      \* the orders at Kite; their ids are their places
          told,      \* the ids that the caller has been told
          answer     \* what the last answer to the caller says of orders; nothing if it raised

loVars == <<lo, call, attempts, kite, told, answer>>

Modes == {"research", "paper", "live_safe", "live"}
NoClient == "none"

\* halves: the quantity an answer names, in half shares.
Answer(op, ok, id, status, symbol, side, halves) ==
  [op |-> op, ok |-> ok, id |-> id, status |-> status, symbol |-> symbol, side |-> side,
   halves |-> halves]

\* BrokerError, of which the caller learns nothing else, or an answer about no order.
NoAnswer == Answer("none", FALSE, 0, "none", "", "", 0)
NoCall == [stage |-> "none", op |-> "none"]

LoInit ==
  /\ \E mode, env \in ModeWords, enabled \in BOOLEAN :
       lo = [mode |-> mode, enabled |-> enabled, env |-> env,
             authenticated |-> FALSE, client |-> NoClient, envChanges |-> 0, logins |-> 0]
  /\ call = NoCall /\ attempts = <<>> /\ kite = <<>> /\ told = {} /\ answer = NoAnswer

-----------------------------------------------------------------------------
(* The checks of a call                                                    *)

\* The mode in force, or NoMode when it is missing, unknown, or configured and
\* set in the environment to two different things.
GetExecutionMode(configured, env) ==
  LET raw == IF configured # NoMode THEN configured ELSE env
      ambiguous == configured # NoMode /\ env # NoMode /\ configured # env
  IN  IF ambiguous \/ raw \notin Modes THEN NoMode ELSE raw

IsLiveExecutionAllowed(configured, enabled, env) ==
  GetExecutionMode(configured, env) = "live" /\ enabled

Ready == lo.authenticated /\ lo.client # NoClient
MayTrade == Ready /\ IsLiveExecutionAllowed(lo.mode, lo.enabled, lo.env)

\* BrokerError before anything is sent.
Refused ==
  /\ answer' = NoAnswer
  /\ UNCHANGED <<lo, call, attempts, kite, told>>

\* The call goes on to Kite; it will not look at the gate again.
Begins(op, id, order) ==
  /\ call' = [stage |-> "checked", op |-> op, id |-> id, order |-> order, reply |-> NoAnswer,
              seen |-> [mode |-> lo.mode, env |-> lo.env, enabled |-> lo.enabled,
                        authenticated |-> lo.authenticated]]
  /\ UNCHANGED <<lo, kite, told, answer>>

-----------------------------------------------------------------------------
(* The calls                                                               *)

\* A failed login forgets that the broker was authenticated and keeps the client.
Authenticate ==
  /\ call = NoCall /\ lo.logins < MaxLogins
  /\ \E valid \in BOOLEAN :
       lo' = [lo EXCEPT !.client = IF valid THEN "connected" ELSE @,
                        !.authenticated = valid, !.logins = @ + 1]
  /\ answer' = NoAnswer
  /\ UNCHANGED <<call, attempts, kite, told>>

PlaceOrder(order) ==
  /\ call = NoCall
  /\ \/ ~MayTrade /\ Refused
     \/ /\ MayTrade /\ Len(attempts) < MaxOrders
        /\ attempts' = Append(attempts, "waiting")
        /\ Begins("place_order", 0, order)

CancelOrder(id) ==
  /\ call = NoCall
  /\ \/ ~MayTrade /\ Refused
     \/ MayTrade /\ Begins("cancel_order", id, NoCall) /\ UNCHANGED attempts

\* Lookups need a login and no gate.
Query(op, id) ==
  /\ call = NoCall
  /\ \/ ~Ready /\ Refused
     \/ Ready /\ Begins(op, id, NoCall) /\ UNCHANGED attempts

GetOrderStatus(id) == Query("get_order_status", id)
GetOrders == Query("get_orders", 0)

\* The positions, the holdings or the account: nothing about an order.
GetAccount == Query("get_account", 0)

-----------------------------------------------------------------------------
(* What Kite makes of them                                                 *)

KiteType(type) == IF type \in {"market", "limit", "sl", "sl-m"} THEN type ELSE "market"
KiteSide(side) == IF side = "buy" THEN "buy" ELSE "sell"

\* The order Kite gets: whole shares, a side and a type it knows.
OrderParams(order) ==
  [symbol |-> order.symbol, side |-> KiteSide(order.side), quantity |-> order.halves \div 2,
   type |-> KiteType(order.type),
   variety |-> IF order.variety = NoVariety THEN DefaultVariety ELSE order.variety,
   attempt |-> Len(attempts), state |-> "OPEN"]

Handled(reply) ==
  /\ call.stage = "checked"
  /\ call' = [call EXCEPT !.stage = "handled", !.reply = reply]
  /\ UNCHANGED <<lo, attempts, told, answer>>

KiteTakesOrder ==
  /\ call.op = "place_order"
  /\ LET order == call.order
     IN  Handled(Answer("place_order", TRUE, Len(kite) + 1, "pending", order.symbol, order.side, order.halves))
  /\ kite' = Append(kite, OrderParams(call.order))

\* The default variety goes with the id: Kite refuses it for an order of another
\* variety, and for one that is over.  A cancellation it takes is answered
\* CANCELLED at once.
KiteTakesCancellation ==
  /\ call.op = "cancel_order"
  /\ kite[call.id].variety = DefaultVariety /\ kite[call.id].state = "OPEN"
  /\ Handled(Answer("cancel_order", TRUE, call.id, "cancelled", "", "", 0))
  /\ kite' = [kite EXCEPT ![call.id].state = "CANCEL_PENDING"]

\* Four final and open words are known; every other is PENDING.
StatusMap(state) ==
  IF state \in {"COMPLETE", "CANCELLED", "REJECTED", "OPEN"}
  THEN CHOOSE pair \in {<<"COMPLETE", "complete">>, <<"CANCELLED", "cancelled">>,
                        <<"REJECTED", "rejected">>, <<"OPEN", "open">>} : pair[1] = state
  ELSE <<state, "pending">>

\* The last entry of the history of the order; of an empty history, an answer that
\* succeeds and names nothing.
KiteTellsStatus ==
  /\ call.op = "get_order_status"
  /\ LET latest == kite[call.id]
     IN  \/ Handled(Answer("get_order_status", TRUE, call.id, StatusMap(latest.state)[2],
                           latest.symbol, latest.side, 2 * latest.quantity))
         \/ Handled(Answer("get_order_status", TRUE, call.id, "pending", "", "", 0))
  /\ UNCHANGED kite

\* The listing names every order there is: its id stands for how many.
KiteListsOrders ==
  /\ call.op = "get_orders"
  /\ Handled(Answer("get_orders", TRUE, Len(kite), "none", "", "", 0))
  /\ UNCHANGED kite

KiteTellsAccount ==
  /\ call.op = "get_account"
  /\ Handled(NoAnswer)
  /\ UNCHANGED kite

-----------------------------------------------------------------------------
(* How a call ends                                                         *)

Became(outcome) ==
  attempts' = IF call.op = "place_order" THEN [attempts EXCEPT ![Len(attempts)] = outcome]
              ELSE attempts

\* The ids an answer tells.
IdsIn(a) == CASE a.op = "place_order" -> {a.id}
              [] a.op = "get_orders" -> 1 .. a.id
              [] OTHER -> {}

Returns ==
  /\ call.stage = "handled"
  /\ answer' = call.reply
  /\ told' = told \union IdsIn(call.reply)
  /\ Became("answered")
  /\ call' = NoCall
  /\ UNCHANGED <<lo, kite>>

\* Broken variant: the call is made again when its answer is lost.
Raises_SendsAgain ==
  /\ call.stage = "handled"
  /\ call' = [call EXCEPT !.stage = "checked"]
  /\ UNCHANGED <<lo, attempts, kite, told, answer>>

\* BrokerError: Kite refuses, cannot be reached, or its answer is lost.  The caller
\* cannot tell one from the other.
Raises ==
  /\ call.stage \in {"checked", "handled"}
  /\ answer' = NoAnswer
  /\ Became("raised")
  /\ call' = NoCall
  /\ UNCHANGED <<lo, kite, told>>

-----------------------------------------------------------------------------
(* What happens meanwhile                                                  *)

\* load_dotenv, or the shell of another session of the process.
EnvironmentChanges ==
  /\ lo.envChanges < MaxEnvChanges
  /\ \E env \in ModeWords \ {lo.env} :
       lo' = [lo EXCEPT !.env = env, !.envChanges = @ + 1]
  /\ UNCHANGED <<call, attempts, kite, told, answer>>

\* The exchange, in Kite's words: an order waits for its trigger, is executed or rejected; a
\* cancellation succeeds or comes too late.
Exchange(id) ==
  /\ \E state \in CASE kite[id].state = "OPEN" -> {"TRIGGER_PENDING", "COMPLETE", "REJECTED"}
                    [] kite[id].state = "TRIGGER_PENDING" -> {"OPEN"}
                    [] kite[id].state = "CANCEL_PENDING" -> {"CANCELLED", "COMPLETE"}
                    [] kite[id].state \in {"COMPLETE", "CANCELLED", "REJECTED"} -> {} :
       kite' = [kite EXCEPT ![id].state = state]
  /\ UNCHANGED <<lo, call, attempts, told, answer>>

LoNext ==
  \/ Authenticate
  \/ \E order \in OrderCalls : PlaceOrder(order)
  \/ \E id \in told : CancelOrder(id) \/ GetOrderStatus(id)
  \/ GetOrders \/ GetAccount
  \/ KiteTakesOrder \/ KiteTakesCancellation \/ KiteTellsStatus \/ KiteListsOrders \/ KiteTellsAccount
  \/ Returns \/ Raises
  \/ EnvironmentChanges
  \/ \E id \in DOMAIN kite : Exchange(id)

LoSpec == LoInit /\ [][LoNext]_loVars

-----------------------------------------------------------------------------
(* Properties                                                              *)

\* Whatever the order of logins, calls and changes of the environment, Kite gets
\* an order or a cancellation only from a call at whose check the configuration and
\* EXECUTION_MODE both meant live, live execution was enabled and the last login had
\* succeeded: a change of the environment stops everything but the call under way.
NothingIsSentUnlessLive ==
  (\/ Len(kite') > Len(kite)
   \/ \E id \in DOMAIN kite : kite[id].state # "CANCEL_PENDING" /\ kite'[id].state = "CANCEL_PENDING")
    => /\ call.stage = "checked"
       /\ call.seen.authenticated /\ call.seen.enabled
       /\ "live" \in {call.seen.mode, call.seen.env}
       /\ {call.seen.mode, call.seen.env} \subseteq {"live", NoMode}

\* An answer about an order names an order Kite has, with its symbol, the side it
\* has there when the caller named one of the two, and the quantity it has to half a
\* share; a lookup that says an order is over is right for ever.  One that names
\* nothing claims nothing.  (A cancellation answered CANCELLED may yet be executed.)
IsTrue(a) ==
  LET order == kite[a.id]
  IN  (a.ok /\ a.op \in {"place_order", "get_order_status"}) =>
        /\ a.id \in DOMAIN kite
        /\ a.symbol = "" => a.status = "pending" /\ a.halves = 0
        /\ a.symbol # "" => /\ order.symbol = a.symbol
                            /\ a.side \in {"buy", "sell"} => order.side = a.side
                            /\ a.halves - 2 * order.quantity \in {0, 1}
        /\ a.status \in {"complete", "cancelled", "rejected"} => StatusMap(order.state)[2] = a.status

AnswersAreTrue == IsTrue(answer)

\* What a lost answer can hide from the caller: a call of place_order makes one
\* order at most, an order of which nobody was told is of a call that raised or is
\* under way, each call that was answered made an order the caller knows, and the
\* listing of the orders leaves none out but that of a call begun after it.
LostOrdersAreFound ==
  /\ \A m, n \in DOMAIN kite : kite[m].attempt = kite[n].attempt => m = n
  /\ \A n \in DOMAIN kite : n \notin told => attempts[kite[n].attempt] \in {"raised", "waiting"}
  /\ \A k \in DOMAIN attempts : attempts[k] = "answered" => \E n \in told : kite[n].attempt = k
  /\ (answer.ok /\ answer.op = "get_orders") =>
       \A n \in DOMAIN kite : n \in told \/ attempts[kite[n].attempt] = "waiting"

\* Orders reach Kite only from calls let through by a live, enabled and authenticated
\* process, once for each, and what the caller is told of them is true and enough.
OrdersStayUnderControl ==
  /\ [](AnswersAreTrue /\ LostOrdersAreFound)
  /\ [][NothingIsSentUnlessLive]_loVars
=============================================================================
