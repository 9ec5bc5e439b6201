-------------------------- MODULE MCOperatorSession -------------------------
(* OperatorSession on two tabs; the state lives one unit of time and the   *)
(* session two, so that each may expire first.                             *)
EXTENDS TLC

CONSTANTS Tab, StateTTL, SessionTTL, MaxFlows, MaxTime, MaxMishaps

VARIABLES
  now, stage, tab, prompt, account, made, used, refresh, minted, granted, dead, stored, token,
  session, flows, mishaps

Login == INSTANCE OperatorSession

ASSUME LoginConstants == Login!SessionConstants

LoginSpec == Login!Spec

(* What require_operator lets through is a session of the operator's, by a *)
(* click within the two lifetimes, although a state may be used again.     *)
AccessIsRecent == Login!AccessIsRecent

(* The stored refresh token is the operator's, and no login succeeds       *)
(* without the one that Google gives only with the first grant.            *)
RefreshTokenKept == Login!RefreshTokenKept

(* A reconnect that brings a session leaves a refresh token that works,    *)
(* after whatever loss or revocation it was made for.                      *)
ReconnectRepairs == Login!ReconnectRepairs

MCSymmetry == Permutations(Tab)
=============================================================================
