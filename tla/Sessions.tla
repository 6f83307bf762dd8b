--------------------------------- MODULE Sessions ---------------------------------
(***************************************************************************)
(* What the login promises to the rest of the server (internal/auth/       *)
(* oidc.go): the browser has at most one session, which names the groups   *)
(* of its user and expires, and rights that come from a group outlive it   *)
(* by less than the life of a session and the time that a login may take   *)
(* from learning the groups to issuing the session.  Login implements this.*)
(***************************************************************************)
EXTENDS Cookies

CONSTANTS
  SessionAge,  (* sessionDuration, 24 h                                    *)
  Lag          (* ticks from the code exchange to the signing of a session *)

ASSUME SessionAgeAssumption == SessionAge \in Nat \ {0} /\ Lag \in Nat

VARIABLES
  session,  (* the browser's session cookie: its user is in an admin group *)
            (* or is a plain user                                          *)
  member,   (* the user is in an admin group at the provider               *)
  lost      (* ticks since the user last was, Long at most                 *)

sessionVars == <<session, member, lost>>

Long == SessionAge + Lag + 1

SessionCookie == CookieOf({"admin", "user"}, SessionAge)

SessionsInit ==
  /\ session = NoCookie
  /\ member \in BOOLEAN
  /\ lost = IF member THEN 0 ELSE Long

(* The rights a session grants will have ended SessionAge + Lag after the  *)
(* user left the group.                                                    *)
InTime(cookie) ==
  cookie.val = "admin" =>
    (IF member THEN 0 ELSE lost) + cookie.left <= SessionAge + Lag

(* A login or a logout is answered.                                        *)
NewSession ==
  /\ session' \in SessionCookie /\ InTime(session')
  /\ UNCHANGED <<member, lost>>

ChangeGroups ==
  /\ member' = ~member
  /\ lost' = 0
  /\ UNCHANGED session

Pass ==
  /\ session' = Older(session)
  /\ lost' = IF member \/ lost = Long THEN lost ELSE lost + 1
  /\ UNCHANGED member

SessionsNext == NewSession \/ ChangeGroups \/ Pass

SessionsSpec == SessionsInit /\ [][SessionsNext]_sessionVars
=============================================================================
