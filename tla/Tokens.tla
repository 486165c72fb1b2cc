-------------------------------- MODULE Tokens ---------------------------------
(* agent_tokens (internal/store/tokens.go): a table from the ids in use to     *)
(* rows of a name, scopes, capabilities, an expiry and whether it is revoked.  *)
(* A token's secret stands for its id: a hash names one row.                   *)
EXTENDS Naturals

CONSTANTS TokenIds, Never

HasCapability(token, capability) == capability \in token.caps

AllowsScope(token, scope) == scope \in token.scopes

Expired(token, now) == token.expires # Never /\ now > token.expires

\* lookupLiveToken: LookupToken finds the row, and it is neither revoked nor
\* expired.
TokenLive(tokens, id, now) ==
  /\ id \in DOMAIN tokens
  /\ ~tokens[id].revoked
  /\ ~Expired(tokens[id], now)

\* handleCreateAgent's check: a name is taken until its token is revoked.
NameTaken(tokens, name) ==
  \E id \in DOMAIN tokens : tokens[id].name = name /\ ~tokens[id].revoked

Unused(tokens) == TokenIds \ DOMAIN tokens

\* CreateToken: a new id, and no constraint on the name.
InsertToken(tokens, id, name, scopes, caps, expires) ==
  LET row == [name |-> name, scopes |-> scopes, caps |-> caps, expires |-> expires,
              revoked |-> FALSE, used |-> FALSE]
  IN [t \in DOMAIN tokens \cup {id} |-> IF t = id THEN row ELSE tokens[t]]

\* The rows RevokeToken would mark; with none it answers ErrTokenNotFound.
RevokedBy(tokens, idOrName) ==
  {id \in DOMAIN tokens : /\ ~tokens[id].revoked
                          /\ id = idOrName \/ tokens[id].name = idOrName}

RevokeRows(tokens, ids) ==
  [id \in DOMAIN tokens |-> IF id \in ids THEN [tokens[id] EXCEPT !.revoked = TRUE] ELSE tokens[id]]

\* TouchToken
TouchToken(tokens, id) == [tokens EXCEPT ![id].used = TRUE]

===============================================================================
