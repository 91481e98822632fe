-------------------------------- MODULE Cors --------------------------------
(***************************************************************************)
(* The CORS allowlist (cors.go): how a configured list is parsed and a     *)
(* request's Origin matched against it.  A host is a sequence of           *)
(* characters.  An origin is what url.Parse makes of one: extra says that  *)
(* a path, a query, a fragment or user information came with it; "other"   *)
(* is any scheme but http and https, the literal "null" included.          *)
(***************************************************************************)
EXTENDS Naturals, Sequences

CONSTANTS Lower,    \* Lower[c]: the lower case of character c
          NoOrigin  \* a request without an Origin header

Char == DOMAIN Lower

OriginOver(hosts) ==
  [scheme : {"http", "https", "other"}, host : hosts,
   port : {"", "80", "443", "8443"}, extra : BOOLEAN]

Star == "*"  \* the entry that matches everything

----------------------------------------------------------------------------
(* The code.                                                               *)

ToLower(s) == [i \in 1 .. Len(s) |-> Lower[s[i]]]

NormalPort(u) ==
  IF <<u.scheme, u.port>> \in {<<"http", "80">>, <<"https", "443">>}
    THEN "" ELSE u.port

(* What both ParseOrigins and Match ask of an origin first.                *)
WellFormed(u) == u.scheme # "other" /\ u.host # <<>> /\ ~u.extra

IsWildcard(host) == Len(host) >= 2 /\ host[1] = "*" /\ host[2] = "."

(* ParseOrigins, entry by entry.                                           *)
Entry(u) ==
  LET host == ToLower(u.host)
  IN  [scheme |-> u.scheme, port |-> NormalPort(u), wildcard |-> IsWildcard(host),
       host |-> IF IsWildcard(host) THEN SubSeq(host, 3, Len(host)) ELSE host]

ValidEntry(u) ==
  /\ WellFormed(u)
  /\ Entry(u).host # <<>>
  /\ \A i \in 1 .. Len(Entry(u).host) : Entry(u).host[i] # "*"

(* A list is a pair: whether it holds "*", and its other entries.          *)
ValidList(list) == \A u \in list.entries : ValidEntry(u)

ParseOrigins(list) ==
  [all |-> list.all, entries |-> {Entry(u) : u \in list.entries}]

HasSuffix(s, t) ==
  Len(t) <= Len(s) /\ SubSeq(s, Len(s) - Len(t) + 1, Len(s)) = t

(* Mutant: the suffix is compared without its dot.                         *)
MatchesEntryUndotted(e, u) ==
  LET host == ToLower(u.host)
  IN  /\ e.scheme = u.scheme /\ e.port = NormalPort(u)
      /\ host = e.host \/ (e.wildcard /\ HasSuffix(host, e.host))

MatchesEntry(e, u) ==
  LET host == ToLower(u.host)
      suffix == <<".">> \o e.host
      label == SubSeq(host, 1, Len(host) - Len(suffix))
  IN  /\ e.scheme = u.scheme /\ e.port = NormalPort(u)
      /\ IF e.wildcard
           THEN /\ HasSuffix(host, suffix)
                /\ label # <<>> /\ \A i \in 1 .. Len(label) : label[i] # "."
           ELSE host = e.host

(* Match: the value of Access-Control-Allow-Origin, "none" for no header,  *)
(* "echo" for the request's origin as it came.                             *)
Match(origins, origin) ==
  IF origin = NoOrigin THEN "none"
  ELSE IF origins.all THEN Star
  ELSE IF WellFormed(origin) /\ \E e \in origins.entries : MatchesEntry(e, origin)
         THEN "echo"
  ELSE "none"

----------------------------------------------------------------------------
(* spec/wire.md 10.1, on the list as it was configured.                    *)

(* A port that is not written is the scheme's.                             *)
Port(u) == IF u.port # "" THEN u.port
           ELSE IF u.scheme = "http" THEN "80" ELSE "443"

(* The host is the pattern's, or the pattern is "*.domain" and exactly one *)
(* label stands for its "*".                                               *)
HostMatches(pattern, host) ==
  \/ pattern = host
  \/ \E n \in 1 .. Len(host) :
       /\ \A i \in 1 .. n : host[i] # "."
       /\ pattern = <<"*">> \o SubSeq(host, n + 1, Len(host))

OriginMatches(u, origin) ==
  /\ origin.scheme = u.scheme /\ ~origin.extra /\ origin.host # <<>>
  /\ Port(origin) = Port(u)
  /\ HostMatches(ToLower(u.host), ToLower(origin.host))

Allowed(list, origin) ==
  IF origin = NoOrigin THEN "none"
  ELSE IF list.all THEN Star
  ELSE IF \E u \in list.entries : OriginMatches(u, origin) THEN "echo"
  ELSE "none"
=============================================================================
