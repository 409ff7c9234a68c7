-------------------------- MODULE MilvusConnections -------------------------
(***************************************************************************)
(* The connection that the MilvusVDB instances with one endpoint and token *)
(* share.  pymilvus keeps one connection under one alias for all of them,  *)
(* as its version 2.6.9 does, and the close() of a client ends it.         *)
(* MilvusVDB counts its instances in a class variable and lets the last    *)
(* one that is released close the connection.                              *)
(*                                                                         *)
(* Each instance is made, used and closed by a thread of its own, or is    *)
(* forgotten and collected.  The garbage collector runs in any thread at   *)
(* any time, inside the locked sections too: the lock is reentrant.        *)
(***************************************************************************)
EXTENDS Naturals, FiniteSets

CONSTANTS
  Instances,   \* the instances made for one endpoint and token
  Nobody       \* owner of the free lock

ASSUME ConnectionsAssumption ==
  /\ IsFiniteSet(Instances)
  /\ Nobody \notin Instances

VARIABLES
  place,      \* what each instance, or the thread that makes it, does next
  refcount,   \* _conn_refcount of the key, 0 where there is no entry
  lock,       \* the instance whose thread holds _conn_refcount_lock
  read,       \* what each locked section has read from the table
  open,       \* the connection is registered and open
  nested      \* an instance was collected inside a locked section

connVars == <<place, refcount, lock, read, open, nested>>

ConnTypeOK ==
  /\ place \in [Instances -> {"none", "made", "counting", "counted", "connect",
                              "used", "garbage", "releasing", "gone"}]
  /\ refcount \in Nat
  /\ lock \in Instances \cup {Nobody}
  /\ read \in [Instances -> Nat]
  /\ open \in BOOLEAN
  /\ nested \in BOOLEAN

ConnInit ==
  /\ place = [i \in Instances |-> "none"]
  /\ refcount = 0
  /\ lock = Nobody
  /\ read = [i \in Instances |-> 0]
  /\ open = FALSE
  /\ nested = FALSE

GoTo(i, p) == place' = [place EXCEPT ![i] = p]

(* MilvusClient(): opens the connection or takes the open one.             *)
Make(i) ==
  /\ place[i] = "none"
  /\ open' = TRUE
  /\ GoTo(i, "made")
  /\ UNCHANGED <<refcount, lock, read, nested>>

(* It raises: the instance has no key, and its __del__ does nothing.       *)
MakeRaises(i) ==
  /\ place[i] = "none"
  /\ GoTo(i, "gone")
  /\ UNCHANGED <<refcount, lock, read, open, nested>>

(* The locked section of __init__ reads the count ...                      *)
CountReads(i) ==
  /\ place[i] = "made"
  /\ lock = Nobody
  /\ lock' = i
  /\ read' = [read EXCEPT ![i] = refcount]
  /\ GoTo(i, "counting")
  /\ UNCHANGED <<refcount, open, nested>>

(* ... and stores one more.                                                *)
CountStores(i) ==
  /\ place[i] = "counting"
  /\ refcount' = read[i] + 1
  /\ lock' = Nobody
  /\ GoTo(i, "counted")
  /\ UNCHANGED <<read, open, nested>>

(* Fault: the alias is taken to be there since MilvusClient().             *)
ChecksNothing(i) ==
  /\ place[i] = "counted"
  /\ GoTo(i, "used")
  /\ UNCHANGED <<refcount, lock, read, open, nested>>

(* has_connection(): the alias may have been closed since MilvusClient().  *)
Checks(i) ==
  /\ place[i] = "counted"
  /\ GoTo(i, IF open THEN "used" ELSE "connect")
  /\ UNCHANGED <<refcount, lock, read, open, nested>>

(* connections.connect() under the same alias.                             *)
Connects(i) ==
  /\ place[i] = "connect"
  /\ open' = TRUE
  /\ GoTo(i, "used")
  /\ UNCHANGED <<refcount, lock, read, nested>>

(* It raises, or the optional client of nv_ingest does: the caller gets no *)
(* instance, and what there is of it is garbage.                           *)
InitRaises(i) ==
  /\ place[i] \in {"connect", "used"}
  /\ GoTo(i, "garbage")
  /\ UNCHANGED <<refcount, lock, read, open, nested>>

(* Nobody refers to the instance any more, and nobody has closed it.       *)
Forgotten(i) ==
  /\ place[i] = "used"
  /\ GoTo(i, "garbage")
  /\ UNCHANGED <<refcount, lock, read, open, nested>>

(* _release_connection, by close() or by __del__: reads the count ...      *)
ReleaseReads(i) ==
  /\ place[i] \in {"used", "garbage"}
  /\ lock = Nobody
  /\ lock' = i
  /\ read' = [read EXCEPT ![i] = refcount]
  /\ GoTo(i, "releasing")
  /\ UNCHANGED <<refcount, open, nested>>

(* Fault: the last release is taken for one of several.                    *)
ReleasesAtZero(n) ==
  IF n <= 0 THEN refcount' = 0 /\ open' = FALSE
            ELSE refcount' = n - 1 /\ UNCHANGED open

(* What a release does with the count it has read: the last one removes    *)
(* the entry and closes the connection.                                    *)
Releases(n) ==
  IF n <= 1 THEN refcount' = 0 /\ open' = FALSE
            ELSE refcount' = n - 1 /\ UNCHANGED open

ReleaseStores(i) ==
  /\ place[i] = "releasing"
  /\ Releases(read[i])
  /\ lock' = Nobody
  /\ GoTo(i, "gone")
  /\ UNCHANGED <<read, nested>>

(* The collector runs __del__ in the thread that is inside a locked        *)
(* section: the lock lets it in, and the whole release comes in between.   *)
Collected(i) ==
  /\ place[i] = "garbage"
  /\ lock # Nobody
  /\ Releases(refcount)
  /\ nested' = TRUE
  /\ GoTo(i, "gone")
  /\ UNCHANGED <<lock, read>>

ConnNext ==
  \E i \in Instances :
    \/ Make(i) \/ MakeRaises(i) \/ CountReads(i) \/ CountStores(i)
    \/ Checks(i) \/ Connects(i) \/ InitRaises(i) \/ Forgotten(i)
    \/ ReleaseReads(i) \/ ReleaseStores(i) \/ Collected(i)

ConnSpec == ConnInit /\ [][ConnNext]_connVars

(***************************************************************************)
(* Properties                                                              *)
(***************************************************************************)
(* No instance in use has its connection closed by another one, although   *)
(* one may be released between the MilvusClient() of an instance and its   *)
(* count, and although the collector may spoil the count                   *)
(* (_conn_refcount, has_connection and connect in __init__).               *)
UsedIsOpen == \A i \in Instances : place[i] = "used" => open
(* Once every instance is gone, the connection is closed and the table has *)
(* no entry, unless the collector ran inside a locked section              *)
(* (_release_connection).                                                  *)
AllGone == \A i \in Instances : place[i] = "gone"
LastCloses == AllGone /\ ~nested => refcount = 0 /\ ~open
=============================================================================
