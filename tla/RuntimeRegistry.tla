-------------------------- MODULE RuntimeRegistry --------------------------
(***************************************************************************)
(* RuntimeRegistry and the claims of ConnectionHandle: at most one open     *)
(* handle per connection fingerprint and process, reused by every pool      *)
(* object with that fingerprint; the oldest handle without a claim is       *)
(* evicted beyond MAX_POOLS; a forked child starts afresh.  The client of a *)
(* handle has the handle's number.  The registry's lock is held for one     *)
(* step.                                                                    *)
(***************************************************************************)
EXTENDS Naturals, Sequences, SequencesExt

CONSTANTS
  Keys,         \* ConnectionKey
  MAX_POOLS,
  MaxHandles    \* bound: handles ever created

VARIABLES
  pid,          \* the process the model follows
  process,      \* ProcessState: the pid it belongs to (0: none), its pools
                \* from the least to the most recently used
  handles       \* every ConnectionHandle created so far

registryVars == <<pid, process, handles>>

NoProcess == [pid |-> 0, pools |-> <<>>]

ASSUME RegistryAssumption == MAX_POOLS \in Nat \ {0} /\ MaxHandles \in Nat

RegistryInit == pid = 1 /\ process = NoProcess /\ handles = <<>>

Pool(p, key) == SelectSeq(p.pools, LAMBDA h : handles[h].key = key)
Without(pools, h) == SelectSeq(pools, LAMBDA g : g # h)

\* close() of a set of handles.
Retired(H, all) == [h \in DOMAIN all |-> IF h \in H THEN [all[h] EXCEPT !.closed = TRUE] ELSE all[h]]

add_claim(all, h) == [all EXCEPT ![h].claims = @ + 1]

\* Mutant: the oldest pool goes, claimed or not.
oldest_pool(pools, all) ==
  IF Len(pools) <= MAX_POOLS THEN 0 ELSE Head(pools)

\* take_oldest_idle_pool: the victim, 0 when there is none.
take_oldest_idle_pool(pools, all) ==
  LET idle == SelectSeq(pools, LAMBDA h : all[h].claims = 0)
  IN IF Len(pools) <= MAX_POOLS \/ idle = <<>> THEN 0 ELSE Head(idle)

\* acquire: the handle, the evicted handle, and the new state.  A state of
\* another process is taken and its handles are invalidated first.
Fresh == IF process.pid \in {0, pid} THEN process ELSE NoProcess
Inherited == IF process.pid \in {0, pid} THEN {} ELSE ToSet(process.pools)

Reusable(key) == SelectSeq(Pool(Fresh, key), LAMBDA h : ~handles[h].closed)

Acquired(key) ==
  IF Reusable(key) # <<>>
  THEN LET h == Head(Reusable(key)) IN
       [handle |-> h, evicted |-> 0, handles |-> add_claim(handles, h),
        process |-> [Fresh EXCEPT !.pools = Append(Without(@, h), h)]]
  ELSE LET h == Len(handles) + 1
           all == Append(Retired(Inherited, handles), [key |-> key, pid |-> pid, claims |-> 1, closed |-> FALSE])
           pools == Append(SelectSeq(Fresh.pools, LAMBDA g : handles[g].key # key), h)
           victim == take_oldest_idle_pool(pools, all)
       IN [handle |-> h, evicted |-> victim,
           handles |-> Retired({victim}, all),
           process |-> [pid |-> pid, pools |-> Without(pools, victim)]]

\* release_claim: a release without an acquire is undone.
release_claim(h) == handles' = [handles EXCEPT ![h].claims = IF @ = 0 THEN 0 ELSE @ - 1]
HoldsLast(h) == handles[h].claims = 1
=============================================================================
