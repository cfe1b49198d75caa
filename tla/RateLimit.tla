----------------------------- MODULE RateLimit -----------------------------
(* The edge of the HTTP interface: the fixed windows of rate_limit.py and the
   middleware that asks them. A request is counted when it arrives; a rejected key
   is counted when its answer comes back, and between the two the loop serves
   others. Time is in half seconds, so that Retry-After, which is in seconds, has
   something to round. *)
EXTENDS Integers, Sequences, FiniteSets

CONSTANTS Clients,      \* budget keys: addresses, or an address with its key
          Limit, FailureLimit, Seconds,   \* GENERAL_LIMIT, AUTH_FAILURE_LIMIT, WINDOW_SECONDS
          MaxKeys,      \* MAX_KEYS
          MaxServing,   \* wrong keys of a client tried at once
          MaxTime, MaxArrivals            \* bounds of the model

ASSUME RateAssumption == /\ IsFiniteSet(Clients)
                         /\ Limit \in Nat \ {0} /\ FailureLimit \in Nat \ {0}
                         /\ Seconds \in Nat \ {0} /\ MaxKeys \in Nat \ {0}
                         /\ MaxServing \in Nat /\ MaxTime \in Nat /\ MaxArrivals \in Nat

Window == 2 * Seconds
Fresh == [start |-> 0, count |-> 0]     \* a key that is not in the table
NotTold == -1

VARIABLES clock,
          general, failures,    \* the two tables: window and count of each client
          serving,              \* serving[c]: requests of c whose key is about to be rejected
          arrivals,             \* history: when c was let through, the last 2 * Limit + 1 times
          due,                  \* history: when c was told to come back, if it did not yet
          rejected,             \* history: rejected keys of c in the window of failures
          forgot                \* history: a table was dropped

rateVars == <<clock, general, failures, serving, arrivals, due, rejected, forgot>>

Tables == [Clients -> [start : 0..MaxTime, count : Nat]]
RateTypeOK == /\ clock \in 0..MaxTime /\ general \in Tables /\ failures \in Tables
              /\ serving \in [Clients -> 0..MaxServing]
              /\ \A c \in Clients : Len(arrivals[c]) <= 2 * Limit + 1
              /\ due \in [Clients -> NotTold..(MaxTime + Window + 1)]

RateInit == /\ clock = 0
            /\ general = [c \in Clients |-> Fresh] /\ failures = general
            /\ serving = [c \in Clients |-> 0]
            /\ arrivals = [c \in Clients |-> <<>>]
            /\ due = [c \in Clients |-> NotTold]
            /\ rejected = [c \in Clients |-> 0]
            /\ forgot = FALSE

-----------------------------------------------------------------------------
(* FixedWindow. A count of 0 is a key the table does not have. *)
Expired(entry) == clock - entry.start >= Window
Tracked(table) == {c \in Clients : table[c].count > 0}

\* Mutation.
Roll_KeepsStart(entry) == IF entry.count = 0 THEN [start |-> clock, count |-> 0]
                          ELSE IF Expired(entry) THEN [entry EXCEPT !.count = 0] ELSE entry

Roll(entry) == IF entry.count = 0 \/ Expired(entry) THEN [start |-> clock, count |-> 0] ELSE entry

\* Mutation.
Wait_Floor(entry) == LET secs == (Window - (clock - entry.start)) \div 2
                     IN IF secs < 1 THEN 1 ELSE secs

(* Seconds, rounded up, of what is left of the window. *)
Wait(entry) == LET left == Window - (clock - entry.start)
                   secs == (left + 1) \div 2
               IN IF secs < 1 THEN 1 ELSE secs

(* Past its bound the table loses the windows that are over, and then everything. *)
Live(table) == [c \in Clients |-> IF Expired(table[c]) THEN Fresh ELSE table[c]]
\* Mutation.
Prune_OnlyOver(table) == IF Cardinality(Tracked(table)) <= MaxKeys THEN table ELSE Live(table)

Prune(table) == IF Cardinality(Tracked(table)) <= MaxKeys THEN table
                ELSE IF Cardinality(Tracked(Live(table))) <= MaxKeys THEN Live(table)
                ELSE [c \in Clients |-> Fresh]

Counted(table, c) == LET entry == Roll(table[c])
                     IN [table EXCEPT ![c] = [entry EXCEPT !.count = @ + 1]]
WindowHit(table, c) == Prune(Counted(table, c))

\* Mutation.
Spent_OneMore(table, c) == ~Expired(table[c]) /\ table[c].count > FailureLimit

(* peek removes a window that is over. *)
Spent(table, c) == ~Expired(table[c]) /\ table[c].count >= FailureLimit
Peeked(table, c) == IF Expired(table[c]) THEN [table EXCEPT ![c] = Fresh] ELSE table

-----------------------------------------------------------------------------
RateTick == /\ clock < MaxTime /\ clock' = clock + 1
            /\ UNCHANGED <<general, failures, serving, arrivals, due, rejected, forgot>>

(* RequestGuards.dispatch up to call_next. A client over its budget of rejected
   keys is told so before anything is counted. *)
Arrives(c) == /\ ~Spent(failures, c)
              /\ general[c].count < MaxArrivals
              /\ failures' = Peeked(failures, c)
              /\ general' = WindowHit(general, c)
              /\ forgot' = (forgot \/ Tracked(general') = {})
              /\ UNCHANGED <<clock, rejected>>

Latest(s) == IF Len(s) > 2 * Limit + 1 THEN Tail(s) ELSE s
Fits(c) == Counted(general, c)[c].count <= Limit

(* What is let through is served; only an answer of 401 matters afterwards. *)
LetThrough(c) == /\ Fits(c) /\ Arrives(c)
                 /\ \/ UNCHANGED serving
                    \/ serving[c] < MaxServing /\ serving' = [serving EXCEPT ![c] = @ + 1]
                 /\ arrivals' = [arrivals EXCEPT ![c] = Latest(Append(@, clock))]
                 /\ due' = [due EXCEPT ![c] = NotTold]

Refuse(c) == /\ ~Fits(c) /\ Arrives(c)
             /\ due' = [due EXCEPT ![c] = clock + 2 * Wait(Roll(general[c]))]
             /\ UNCHANGED <<serving, arrivals>>

(* The answer comes back and is a 401: it is counted against the address. *)
Rejected(c) == /\ serving[c] > 0 /\ serving' = [serving EXCEPT ![c] = @ - 1]
               /\ failures' = WindowHit(failures, c)
               /\ rejected' = [rejected EXCEPT ![c] = IF Roll(failures[c]).count = 0 THEN 1 ELSE @ + 1]
               /\ forgot' = (forgot \/ Tracked(failures') = {})
               /\ UNCHANGED <<clock, general, arrivals, due>>

RateNext == \/ RateTick
            \/ \E c \in Clients : LetThrough(c) \/ Refuse(c) \/ Rejected(c)

RateSpec == RateInit /\ [][RateNext]_rateVars

-----------------------------------------------------------------------------
(* "The double burst a fixed window allows across its seam (up to 2x the limit
   around a boundary)" and not more: no stretch as long as a window lets more than
   two budgets through, as long as the table was not dropped. *)
SeamBound == ~forgot => \A c \in Clients : 
                 Len(arrivals[c]) > 2 * Limit =>
                     arrivals[c][2 * Limit + 1] - arrivals[c][1] >= Window

(* Retry-After is enough: a client that waits as long as it was told is served. *)
WaitIsEnough == \A c \in Clients : due[c] # NotTold /\ clock >= due[c] => Fits(c)

(* The budget of rejected keys holds up to the requests served at the same time,
   which were let through before the first of them was rejected. *)
FailuresBounded == ~forgot => \A c \in Clients : rejected[c] < FailureLimit + MaxServing

(* A flood of distinct clients never grows a table past its bound. *)
TablesBounded == Cardinality(Tracked(general)) <= MaxKeys /\ Cardinality(Tracked(failures)) <= MaxKeys

(* The two budgets let through what they say, tell the rest how long, and stay small. *)
BudgetsHold == RateTypeOK /\ SeamBound /\ WaitIsEnough /\ FailuresBounded /\ TablesBounded
=============================================================================
