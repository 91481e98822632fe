------------------------------ MODULE ObjectMap ------------------------------
(***************************************************************************)
(* What the server promises about objects: a map from names to whole       *)
(* bodies, on which every PUT, GET, DELETE and completed upload takes      *)
(* effect at one instant between its arrival and its answer, or fails      *)
(* without effect.  A crash forgets the calls in flight and nothing else.  *)
(***************************************************************************)
CONSTANTS Proc, Name, Body, None

VARIABLES
  store,  \* store[n]: the body stored under n, or None
  call    \* call[p]: the call that process p is serving

mapVars == <<store, call>>

NoCall == [op |-> "none", name |-> None, body |-> None, outcome |-> "none"]

Call == [op : {"none", "put", "get", "delete"}, name : Name \cup {None},
         body : Body \cup {None},
         outcome : {"none", "ok", "absent", "failed"}]

MapInit ==
  /\ store = [n \in Name |-> None]
  /\ call = [p \in Proc |-> NoCall]

(* What a client may ask for; the call may be refused as it arrives.       *)
Asked == [op : {"put"}, name : Name, body : Body, outcome : {"none", "failed"}]
           \cup [op : {"get", "delete"}, name : Name, body : {None},
                 outcome : {"none", "failed"}]

Invoke(p) ==
  /\ call[p] = NoCall
  /\ call'[p] \in Asked
  /\ call' = [call EXCEPT ![p] = call'[p]]
  /\ UNCHANGED store

Pending(p, op) == call[p].op = op /\ call[p].outcome = "none"

DoPut(p) ==
  /\ Pending(p, "put")
  /\ store' = [store EXCEPT ![call[p].name] = call[p].body]
  /\ call' = [call EXCEPT ![p].outcome = "ok"]

DoGet(p) ==
  /\ Pending(p, "get")
  /\ store[call[p].name] # None
  /\ call' = [call EXCEPT ![p].outcome = "ok",
                          ![p].body = store[call[p].name]]
  /\ UNCHANGED store

DoDelete(p) ==
  /\ Pending(p, "delete")
  /\ store[call[p].name] # None
  /\ store' = [store EXCEPT ![call[p].name] = None]
  /\ call' = [call EXCEPT ![p].outcome = "ok"]

FindAbsent(p) ==
  /\ Pending(p, "get") \/ Pending(p, "delete")
  /\ store[call[p].name] = None
  /\ call' = [call EXCEPT ![p].outcome = "absent"]
  /\ UNCHANGED store

(* An error answer: nothing happened, nor will it.                         *)
Fail(p) ==
  /\ call[p].op # "none"
  /\ call[p].outcome = "none"
  /\ call' = [call EXCEPT ![p].outcome = "failed"]
  /\ UNCHANGED store

(* A read may still fail after the version it is to return was fixed.      *)
ReadFails(p) ==
  /\ call[p].op = "get"
  /\ call[p].outcome = "ok"
  /\ call' = [call EXCEPT ![p].outcome = "failed", ![p].body = None]
  /\ UNCHANGED store

Return(p) ==
  /\ call[p].outcome # "none"
  /\ call' = [call EXCEPT ![p] = NoCall]
  /\ UNCHANGED store

Forget ==
  /\ call' = [p \in Proc |-> NoCall]
  /\ UNCHANGED store

MapNext ==
  \/ \E p \in Proc : \/ Invoke(p) \/ DoPut(p) \/ DoGet(p) \/ DoDelete(p)
                     \/ FindAbsent(p) \/ Fail(p) \/ ReadFails(p) \/ Return(p)
  \/ Forget

MapSpec == MapInit /\ [][MapNext]_mapVars
=============================================================================
