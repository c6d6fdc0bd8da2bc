----------------------------- MODULE OrderSubmit -----------------------------
(***************************************************************************)
(* TradingAdapter.submit_order (adapters/bigqmt/trading.py) over the       *)
(* bridge: what the native function returns is no order, so the adapter    *)
(* watches the order list until an order with the marker of its request    *)
(* shows, or until its deadline.                                           *)
(*                                                                         *)
(* QMT lists an order late, first with a row of its own signal and then    *)
(* with a row of the broker.  The submissions of Shared are alike in all   *)
(* that submit_order compares besides the marker.  A read of the list that *)
(* fails or exceeds the deadline ends the watch like the deadline itself.  *)
(***************************************************************************)
EXTENDS Bridge

VARIABLES
    rows,    \* the order list of the account
    before,  \* the rows StrategyTrading found before each native call
    answer   \* what submit_order returns or raises

orders == <<rows, before, answer>>

NoAnswer == [outcome |-> "none", row |-> None]
Unknown == [outcome |-> "unknown", row |-> None]

OrderInit ==
    /\ Init
    /\ rows = {} /\ before = [c \in Submits |-> {}]
    /\ answer = [c \in Submits |-> NoAnswer]

Row(c, kind, refused) == [of |-> c, kind |-> kind, refused |-> refused]
RowsOf(c) == {r \in rows : r.of = c}

\* QMT lists the order of a native call, and the broker takes or refuses it; an
\* order that QMT itself refuses never reaches the broker.
ListOrder(c) ==
    /\ runs[c] > 0
    /\ \/ RowsOf(c) = {} /\ rows' = rows \cup {Row(c, "signal", FALSE)}
       \/ /\ RowsOf(c) = {Row(c, "signal", FALSE)}
          /\ \/ rows' = (rows \ RowsOf(c)) \cup {Row(c, "signal", TRUE)}
             \/ \E refused \in BOOLEAN : rows' = rows \cup {Row(c, "broker", refused)}
    /\ UNCHANGED <<vars, before, answer>>

\* The rows that carry the marker of c in their remark.
Marked(c) == {r \in rows : Marker(r.of) = Marker(c)}

\* StrategyTrading.execute: no row may carry the marker yet.
CheckOrder ==
    /\ Check
    /\ current \in Submits => Marked(current) = {}
    /\ before' = IF current \in Submits THEN [before EXCEPT ![current] = rows] ELSE before
    /\ UNCHANGED <<rows, answer>>

-----------------------------------------------------------------------------
\* The native function was called; anything else was raised to the caller.
Watching(c) == told[c] = "ok" /\ answer[c] = NoAnswer

Broker(c) == {r \in Marked(c) : r.kind = "broker"}

\* Rows that cannot be of this request, or that leave open which is.
Mismatch(c) == Marked(c) \cap before[c] # {} \/ Cardinality(Broker(c)) > 1

SelectAny(c) == Marked(c)  \* mutant: any row that carries the marker
\* Only the row of the broker makes an order; a lone signal row may refuse it.
Select(c) ==
    IF Broker(c) # {} THEN Broker(c)
    ELSE {r \in Marked(c) : r.refused /\ Cardinality(Marked(c)) = 1}

\* One look at the order list, of those that find something.
Look(c) ==
    /\ Watching(c)
    /\ \/ /\ Mismatch(c)
          /\ answer' = [answer EXCEPT ![c] = Unknown]
       \/ /\ ~Mismatch(c)
          /\ \E r \in Select(c) :
               answer' = [answer EXCEPT ![c] =
                   [outcome |-> IF r.refused THEN "rejected" ELSE "submitted", row |-> r]]
    /\ UNCHANGED <<vars, rows, before>>

\* Nothing was observed before the deadline, or the list cannot be read.
StopWatching(c) ==
    /\ Watching(c)
    /\ answer' = [answer EXCEPT ![c] = Unknown]
    /\ UNCHANGED <<vars, rows, before>>

BridgeStep ==
    \/ \E c \in Calls : Request(c) \/ Take(c)
    \/ \E p \in Pipes : Channel(p)
    \/ Claim \/ Answer \/ Refuse \/ Call \/ Return \/ Start \/ Stop \/ Crash

OrderNext ==
    \/ BridgeStep /\ UNCHANGED orders
    \/ CheckOrder
    \/ \E c \in Submits : ListOrder(c) \/ Look(c) \/ StopWatching(c)

OrderSpec == OrderInit /\ [][OrderNext]_<<vars, orders>>

-----------------------------------------------------------------------------
\* The order of d was placed by another strategy instance than that of c.
PlacedElsewhere(c, d) == \E m, n \in native : m[2] = c /\ n[2] = d /\ m[1] # n[1]

\* Who is told that an order was submitted or rejected is told of the order that
\* this very request placed, though others carry the same correlation_ref and
\* the list shows orders late and twice: a submitted one is the broker's, and a
\* rejected one is nowhere alive.  Only an order of the strategy before it was
\* restarted, which forgot the marker, can be taken for it.
AnswersOwnOrder ==
    \A c \in Submits : answer[c].row # None =>
        \/ /\ answer[c].row.of = c
           /\ IF answer[c].outcome = "submitted" THEN answer[c].row.kind = "broker"
              ELSE Row(c, "broker", FALSE) \notin rows
        \/ PlacedElsewhere(c, answer[c].row.of)
=============================================================================
