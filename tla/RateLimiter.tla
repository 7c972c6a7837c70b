---------------------------- MODULE RateLimiter ----------------------------
(***************************************************************************)
(* The sliding-window limiter of internal/auth/ratelimit.go, called by     *)
(* AuthMiddleware for every authenticated request: per API key, the times  *)
(* of the requests granted during the last minute.  Allow holds the        *)
(* limiter's mutex from its reading of the clock to its return, so it is   *)
(* one step, and times are recorded in order (time.Now is monotonic).      *)
(* windows lives in memory: a restart of the process forgets it, so every  *)
(* statement below is about one run of the process.                        *)
(***************************************************************************)
EXTENDS Integers, Sequences, FiniteSets

CONSTANTS Keys,          \* API keys
          KeyLimit,      \* api_keys.rate_limit of each key
          DefaultLimit,  \* rateLimitDefault, used for a key whose limit is 0
          Window,        \* time.Minute, in ticks of the model's clock
          MaxTime        \* bound of the model: the clock stops there

ASSUME LimiterAssumption ==
  /\ KeyLimit \in [Keys -> Nat]
  /\ DefaultLimit \in Nat \ {0}
  /\ Window \in Nat \ {0}
  /\ MaxTime \in Nat

VARIABLES now,      \* the clock
          windows,  \* windows[k]: the limiter's state
          granted,  \* history: the times of all requests granted to k
          refused   \* history: the times at which a request of k was refused

vars == <<now, windows, granted, refused>>

Limit(k) == IF KeyLimit[k] = 0 THEN DefaultLimit ELSE KeyLimit[k]

Init == /\ now = 0
        /\ windows = [k \in Keys |-> <<>>]
        /\ granted = [k \in Keys |-> <<>>]
        /\ refused = [k \in Keys |-> {}]

Tick == /\ now < MaxTime
        /\ now' = now + 1
        /\ UNCHANGED <<windows, granted, refused>>

\* The loop keeps the times t with t.After(cutoff).  Times are recorded in order,
\* so what it keeps is what follows the first n times, for one n.
Kept(s, recent, cutoff) == \E n \in 0 .. Len(s) :
  /\ \A i \in 1 .. n : s[i] <= cutoff
  /\ \A i \in n + 1 .. Len(s) : s[i] > cutoff
  /\ recent = SubSeq(s, n + 1, Len(s))

Suffixes(s) == {SubSeq(s, n, Len(s)) : n \in 1 .. Len(s) + 1}

\* The two ways Allow returns, with what the loop kept.
Refuse(k, recent) == /\ windows' = [windows EXCEPT ![k] = recent]
                     /\ refused' = [refused EXCEPT ![k] = @ \union {now}]
                     /\ UNCHANGED granted

Grant(k, recent) == /\ windows' = [windows EXCEPT ![k] = Append(recent, now)]
                    /\ granted' = [granted EXCEPT ![k] = Append(@, now)]
                    /\ UNCHANGED refused

-----------------------------------------------------------------------------
(* Mutants of Allow: plausible bugs the properties below exclude. *)

\* A refused request counts against the key as well.
AllowCountsRefused(k) ==
  \E recent \in Suffixes(windows[k]) :
    /\ Kept(windows[k], recent, now - Window)
    /\ IF Len(recent) >= Limit(k)
         THEN /\ windows' = [windows EXCEPT ![k] = Append(recent, now)]
              /\ refused' = [refused EXCEPT ![k] = @ \union {now}]
              /\ UNCHANGED granted
         ELSE Grant(k, recent)
    /\ UNCHANGED now

\* One request too many: len(recent) > limit.
AllowOneMore(k) ==
  \E recent \in Suffixes(windows[k]) :
    /\ Kept(windows[k], recent, now - Window)
    /\ IF Len(recent) > Limit(k) THEN Refuse(k, recent) ELSE Grant(k, recent)
    /\ UNCHANGED now

\* A time exactly a window old still counts: !t.Before(cutoff).
AllowEdgeCounts(k) ==
  \E recent \in Suffixes(windows[k]) :
    /\ Kept(windows[k], recent, now - Window - 1)
    /\ IF Len(recent) >= Limit(k) THEN Refuse(k, recent) ELSE Grant(k, recent)
    /\ UNCHANGED now

-----------------------------------------------------------------------------
(* Allow(keyID, limit), with the limit AuthMiddleware passes. *)
Allow(k) ==
  \E recent \in Suffixes(windows[k]) :
    /\ Kept(windows[k], recent, now - Window)
    /\ IF Len(recent) >= Limit(k) THEN Refuse(k, recent) ELSE Grant(k, recent)
    /\ UNCHANGED now

Next == Tick \/ \E k \in Keys : Allow(k)

Spec == Init /\ [][Next]_vars

-----------------------------------------------------------------------------
(* Properties *)

\* Types, and the memory a key costs: never more times than its limit.
TypeOK == /\ now \in 0 .. MaxTime
          /\ windows \in [Keys -> Seq(0 .. MaxTime)]
          /\ granted \in [Keys -> Seq(0 .. MaxTime)]
          /\ refused \in [Keys -> SUBSET (0 .. MaxTime)]
          /\ \A k \in Keys : Len(windows[k]) <= Limit(k)

\* "requests per minute allowed for this key" (context.go:17): of the requests
\* granted to a key, any one and the limit-th after it are a whole window apart.
Spaced(g, limit) == \A i \in 1 .. Len(g) - limit : g[i + limit] - g[i] >= Window

RateBound == \A k \in Keys : Spaced(granted[k], Limit(k))

\* The requests granted to k during the window that ends at t.
GrantedBy(k, t) == {i \in DOMAIN granted[k] : /\ granted[k][i] > t - Window
                                              /\ granted[k][i] <= t}

\* Whenever a request was refused, its key had really used up its limit within the
\* window before: refused requests never count, and neither does a request that is
\* exactly a window old.
NoFalseRefusal ==
  \A k \in Keys : \A t \in refused[k] : Cardinality(GrantedBy(k, t)) >= Limit(k)

-----------------------------------------------------------------------------
(* The inductive invariant *)

\* w is the end of g, and what of g is no longer in w is not after the cutoff.
IsRecentPart(w, g, cutoff) ==
  /\ Len(w) <= Len(g)
  /\ \A i \in 1 .. Len(w) : w[i] = g[Len(g) - Len(w) + i]
  /\ \A i \in 1 .. Len(g) - Len(w) : g[i] <= cutoff

\* The limiter forgets nothing it needs: a key's window is the end of the history
\* of its grants, and the grants that are no longer in it are older than the
\* cutoff, so that counting the window is counting the last minute.
WindowIsHistory ==
  \A k \in Keys : /\ IsRecentPart(windows[k], granted[k], now - Window)
                  /\ \A i \in 1 .. Len(granted[k]) : granted[k][i] <= now

LimiterInv == TypeOK /\ WindowIsHistory /\ RateBound /\ NoFalseRefusal
=============================================================================
