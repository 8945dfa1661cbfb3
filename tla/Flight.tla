------------------------------- MODULE Flight -------------------------------
(* What a partition of the cache promises to its callers, whatever its size  *)
(* and whenever it drops entries: a call for a key either joins the value    *)
(* that is current for that key or starts a new creation of it, there is     *)
(* never more than one creation of a key under way, and a call returns only  *)
(* what a creation it joined, for the key it asked for, has ended with.      *)
CONSTANTS Calls, Keys, Wrappers, None

VARIABLES want,      \* the key each call asks for
          flight,    \* the creation each call has joined
          result,    \* what each creation has ended with; "none" for an unused name
          subject,   \* the key each creation is for
          current    \* the creation that is current for each key

flightVars == <<want, flight, result, subject, current>>

Outcomes == {"ok", "err", "panic"}

Init ==
  /\ want = [c \in Calls |-> None] /\ flight = [c \in Calls |-> None]
  /\ result = [w \in Wrappers |-> "none"] /\ subject = [w \in Wrappers |-> None]
  /\ current = [k \in Keys |-> None]

\* Nobody holds the creation w, call c apart: its name may be used again.
Unheld(c, w) == /\ \A d \in Calls \ {c} : flight[d] # w
                /\ \A k \in Keys : current[k] # w
                /\ result[w] # "pending"
Recycled(W) == /\ result' = [w \in Wrappers |-> IF w \in W THEN "none" ELSE result[w]]
               /\ subject' = [w \in Wrappers |-> IF w \in W THEN None ELSE subject[w]]

Ask(c, k) ==
  /\ want[c] = None
  /\ want' = [want EXCEPT ![c] = k]
  /\ UNCHANGED <<flight, result, subject, current>>

Join(c) ==
  /\ want[c] # None /\ flight[c] = None
  /\ current[want[c]] # None
  /\ flight' = [flight EXCEPT ![c] = current[want[c]]]
  /\ UNCHANGED <<want, result, subject, current>>

\* A new creation, under a name nobody holds; it may push others out.
Launch(c, w, K) ==
  /\ want[c] # None /\ flight[c] = None
  /\ current[want[c]] = None
  /\ \A v \in Wrappers : result[v] = "pending" => subject[v] # want[c]
  /\ result[w] = "none"
  /\ flight' = [flight EXCEPT ![c] = w]
  /\ result' = [result EXCEPT ![w] = "pending"]
  /\ subject' = [subject EXCEPT ![w] = want[c]]
  /\ current' = [k \in Keys |-> IF k = want[c] THEN w ELSE IF k \in K THEN None ELSE current[k]]
  /\ UNCHANGED want

Land(w, r) ==
  /\ result[w] = "pending"
  /\ result' = [result EXCEPT ![w] = r]
  /\ UNCHANGED <<want, flight, subject, current>>

Forget(K) ==
  /\ current' = [k \in Keys |-> IF k \in K THEN None ELSE current[k]]
  /\ UNCHANGED <<want, flight, result, subject>>

\* An answer is what the creation ended with, for the key asked for.
Return(c, W) ==
  /\ flight[c] # None
  /\ result[flight[c]] \in Outcomes /\ subject[flight[c]] = want[c]
  /\ want' = [want EXCEPT ![c] = None]
  /\ flight' = [flight EXCEPT ![c] = None]
  /\ (\A w \in W : Unheld(c, w)) /\ Recycled(W)
  /\ UNCHANGED current

\* A value that has gone stale is not returned: the call asks again.
Retry(c, W) ==
  /\ flight[c] # None
  /\ result[flight[c]] = "ok"
  /\ flight' = [flight EXCEPT ![c] = None]
  /\ (\A w \in W : Unheld(c, w)) /\ Recycled(W)
  /\ UNCHANGED <<want, current>>

\* A call that only looks is told that there is nothing.
Withdraw(c) ==
  /\ want[c] # None /\ flight[c] = None
  /\ want' = [want EXCEPT ![c] = None]
  /\ UNCHANGED <<flight, result, subject, current>>

Recycle(W) ==
  /\ (\A w \in W : Unheld(None, w)) /\ Recycled(W)
  /\ UNCHANGED <<want, flight, current>>

Next ==
  \/ \E c \in Calls : \/ Join(c) \/ Withdraw(c)
                      \/ \E W \in SUBSET Wrappers : Return(c, W) \/ Retry(c, W)
                      \/ \E k \in Keys : Ask(c, k)
                      \/ \E w \in Wrappers, K \in SUBSET Keys : Launch(c, w, K)
  \/ \E w \in Wrappers, r \in Outcomes : Land(w, r)
  \/ \E K \in SUBSET Keys : Forget(K)
  \/ \E W \in SUBSET Wrappers : Recycle(W)

Spec == Init /\ [][Next]_flightVars
=============================================================================
