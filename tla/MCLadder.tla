----------------------------- MODULE MCLadder -------------------------------
(* Ladder for TLC: every kind of key, every route with up to MaxFaults     *)
(* faults its program can meet, and the CORS cases on the routes that need *)
(* nothing else.                                                           *)
EXTENDS LadderInv

CONSTANT MaxFaults

MCLower == [c \in {"a", "A", "b", ".", "*"} |-> IF c = "A" THEN "a" ELSE c]

MCKeyRows ==
  {k \in Row : /\ k.admin => k.own = "none" /\ k.any = "none"
               /\ ~k.live => k = NoCaller \/ k.admin \/ <<k.own, k.any>> = <<"write", "none">>}

Off == [all |-> FALSE, entries |-> {}]

Plain(scheme, host, port) ==
  [scheme |-> scheme, host |-> host, port |-> port, extra |-> FALSE]

AB == <<"a", ".", "b">>

Lists ==
  {[all |-> FALSE, entries |-> {u}] :
     u \in [scheme : {"http", "https"},
            host : {<<"A">>, AB, <<"*", ".">> \o <<"a">>, <<"*", ".">> \o AB, <<"a", "*">>},
            port : {"", "80", "443", "8443"}, extra : {FALSE}]}
    \cup {[all |-> TRUE, entries |-> {}]}

Hosts == {<<>>, <<"a">>, <<"A">>, AB, <<"b", ".", "a">>, <<"b", "a">>, <<".", "a">>,
          <<"b", ".">> \o AB, <<"b", ".", "b", ".", "a">>, <<"a", "b", ".", "A">>}

(* A request without faults meets every key and world; one with faults    *)
(* the keys and worlds that its checks can tell apart.                     *)
Keys(form, faults) ==
  CASE form = "anonymous" -> {NoCaller}
    [] form # "anonymous" /\ faults = {} -> MCKeyRows
    [] OTHER -> {k \in MCKeyRows : k.any = "none"}

Worlds(route, faults) ==
  {w \in World :
     faults # {} =>
       /\ w.object => {"object", "noObjects", "dropObject"} \cap Range(Chain[route]) # {}
       /\ w.session # "absent" => {"session", "noUploads"} \cap Range(Chain[route]) # {}}

Faulty(route, form) ==
  LET known == Range(Authenticate[form] \o Chain[route]) \cap Fault
  IN  UNION {kSubset(n, known) : n \in 0 .. MaxFaults}

Guarded ==
  UNION {[config : {[all |-> FALSE, entries |-> {}]}, key : Keys(f, s),
          world : Worlds(r, s), route : {r}, form : {f}, faults : {s},
          origin : {NoOrigin}] :
           <<r, f, s>> \in UNION {{r} \X {f} \X Faulty(r, f) :
                                   r \in Route \ {"preflight"}, f \in Form}}

CrossOrigin ==
  [config : Lists, key : Keys("anonymous", {}),
   world : {CHOOSE w \in World : w.bucket = "absent"},
   route : {"preflight", "health"}, form : {"anonymous"}, faults : {{}},
   origin : OriginOver(Hosts) \cup {NoOrigin}]

MCStarts == Guarded \cup CrossOrigin
=============================================================================
