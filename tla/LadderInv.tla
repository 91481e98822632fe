----------------------------- MODULE LadderInv ------------------------------
(***************************************************************************)
(* The inductive invariant behind OnlyGranted and ExistenceHidden: what    *)
(* the checks that a request has passed say of its caller, and which of    *)
(* the caller's rights have held since the request began.                  *)
(***************************************************************************)
EXTENDS Ladder

(* What it means, ever after, that the request passed the check c.         *)
Passed(c, r) ==
  /\ c # "route"
  /\ c = "live" => r.row.live
  /\ c = "auth" => r.form # "anonymous"
  /\ c = "admin" => r.row.admin
  /\ c \in {"read", "write"} => Allows(r.row, c)
  /\ c = "publicOrRead" =>
       "public" \in r.held \/ r.form = "anonymous" \/ Allows(r.row, "read")
  /\ c = "publicOrAuth" => "public" \in r.held \/ r.form # "anonymous"

PassedBelow(r, j) == \A i \in 1 .. j - 1 : Passed(Program(r)[i], r)

(* The rights of a row k that is live are among those that have held.      *)
RightsHeld(k, r) ==
  k.live =>
    /\ r.form # "anonymous" /\ "any" \in r.held
    /\ \A x \in {"read", "write"} : Allows(k, x) => x \in r.held
    /\ k.admin => "admin" \in r.held

Origin == OriginOver(Seq(Char)) \cup {NoOrigin}

LadderRequest ==
  [route : Route, form : Form, faults : SUBSET Fault, origin : Origin, pc : Nat,
   row : KeyRows \cup {NoCaller}, held : SUBSET {"public", "any", "read", "write", "admin"},
   changes : 0 .. MaxChanges,
   answer : {"pending", "ok"} \cup {CodeOf(c) : c \in Fault \cup DOMAIN OtherCode},
   allow : {"none", "echo", Star}]

Running ==
  req.answer = "pending" =>
    /\ req.pc <= Len(Program(req))
    /\ Rights(req.form, key, world) \subseteq req.held
    /\ PassedBelow(req, req.pc)

(* The answer is that of the first check that failed, or "ok".             *)
Answered ==
  req.answer # "pending" /\ req.route # "preflight" =>
    \E j \in 1 .. Len(Program(req)) + 1 :
      /\ PassedBelow(req, j)
      /\ req.answer = IF j <= Len(Program(req)) THEN CodeOf(Program(req)[j]) ELSE "ok"

(* The header is settled when the request comes in.                        *)
AllowSettled ==
  req.answer # "pending" \/ req.pc > 0 =>
    req.allow = Match(ParseOrigins(config), req.origin)

LadderInv ==
  /\ LadderTypeOK
  /\ req \in LadderRequest /\ config.entries \subseteq OriginOver(Seq(Char))
  /\ RightsHeld(req.row, req) /\ (req.form = "anonymous" => req.row = NoCaller)
  /\ Running
  /\ Answered
  /\ AllowSettled
=============================================================================
