----------------------------- MODULE ServiceToken -----------------------------
(***************************************************************************)
(* app/services/token_auth.py and app/api/auth.py: which Authorization     *)
(* headers a gated endpoint takes.                                         *)
(*                                                                         *)
(* A header that is no bearer token of three decodable parts is Unreadable *)
(* here.  A token is a record: alg and the claims it has, with signed for  *)
(* a signature that the configured key gives.                              *)
(***************************************************************************)
EXTENDS Naturals

Unreadable == [unreadable |-> TRUE]

\* SYNTHIA_AUTH_REQUIRED and SYNTHIA_JWT_SIGNING_KEY.
AuthModes == {"off", "on", "on, without a key"}

Audience == "mqtt"    \* SYNTHIA_TOKEN_AUDIENCE, or the addon id

\* _validate_required_claim: a claim that is absent, null or blank is missing.
HasClaim(token, claim) == claim \in DOMAIN token /\ token[claim] # ""

\* _validate_exp
Unexpired(token, now) == "exp" \in DOMAIN token /\ token.exp > now

\* _extract_scopes: scopes counts where there is no scp.
ScopesOf(token) ==
  IF "scp" \in DOMAIN token THEN token.scp
  ELSE IF "scopes" \in DOMAIN token THEN token.scopes ELSE {}

\* validate_bearer, as require_scope calls it: otherwise HTTP 401.
TokenOK(mode, token, scope, now) ==
  \/ mode = "off"
  \/ /\ mode = "on" /\ token # Unreadable
     /\ token.alg = "HS256" /\ token.signed
     /\ Unexpired(token, now)
     /\ \A claim \in {"sub", "aud", "jti"} : HasClaim(token, claim)
     /\ token.aud = Audience
     /\ scope \in ScopesOf(token)

\* The sub of the claims it returns.
Subject(mode, token) == IF mode = "off" THEN "anonymous" ELSE token.sub
=============================================================================
