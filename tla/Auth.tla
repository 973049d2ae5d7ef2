-------------------------------- MODULE Auth --------------------------------
(* mod_auth.c and http_auth.c: which requests need a user, the Basic and the *)
(* Digest check, the challenge and its retry after the nonce has aged.       *)
(* Passwords and hashes are abstract: an answer is made with the right       *)
(* secret of its user or not.  The server keeps no nonces: it reads the time *)
(* a nonce was made from the nonce that comes back.  A request can come back *)
(* with another path (a local redirect, mod_magnet, an error handler): it is *)
(* then checked anew, with the environment it has by now.                    *)
EXTENDS Integers, Sequences, SequencesExt

CONSTANTS
  Requires,    \* auth.require in its order: [prefix, method, realm, rules]
  Accounts,    \* the user file: [user, realm]
  AuthUsers,   \* names of users, in the file or not
  AuthRealms,  \* names of realms
  AuthPaths,   \* request paths, as sequences
  AuthBackends,\* auth.backend: "htdigest", "htpasswd", "plain", "unset"
  NonceAge,    \* how long a nonce is good (600 seconds)
  MaxPasses,   \* how often a request is prepared (100 in the code)
  MaxClock

ASSUME AuthAssumption == NonceAge \in Nat /\ MaxClock \in Nat /\ MaxPasses \in Nat

VARIABLES
  clock,      \* srv->cur_ts
  nonce,      \* the time in the nonce of the last challenge, -1 before one
  auth_user,  \* p->auth_user, which outlives a request
  remote_user,\* REMOTE_USER in con->environment
  asker,      \* the request: [pass, cred, checked]
  verdict,    \* how it was answered
  aconf       \* the backend

authVars == <<clock, nonce, auth_user, remote_user, asker, verdict, aconf>>

NoUser == "none"
NotAsked == [path |-> <<>>, status |-> 0, stale |-> FALSE, at |-> -1]

\* Before a request: no credentials yet, and nobody who was checked.
NoRequest == [pass |-> 0, cred |-> [scheme |-> "none"], checked |-> FALSE]

AuthInit ==
  /\ clock = 0 /\ nonce = -1
  /\ auth_user = NoUser /\ remote_user = NoUser
  /\ asker = NoRequest /\ verdict = NotAsked
  /\ aconf \in AuthBackends

-----------------------------------------------------------------------------
\* http_auth_get_password: the htdigest file is searched for user and realm,
\* the others for the user alone.
http_auth_get_password(user, realm) ==
  \E a \in Accounts :
    /\ aconf \in {"htdigest", "htpasswd", "plain"}
    /\ a.user = user
    /\ aconf = "htdigest" => a.realm = realm

\* One rule of `require': go on, accept, or end with a refusal.
Rule(r, user) ==
  CASE r.key = "user" -> IF r.name = user THEN "accept" ELSE "next"
    [] r.key \in {"group", "host"} -> "next"          \* "not implemented"
    [] OTHER -> "refuse"                              \* no =, unknown key, valid-user

\* http_auth_match_rules: valid-user alone, or the first rule that decides.
http_auth_match_rules(rules, user) ==
  LET deciding == {k \in DOMAIN rules : Rule(rules[k], user) # "next"}
  IN  \/ Len(rules) = 1 /\ rules[1].key = "valid-user"
      \/ \E k \in deciding : /\ \A j \in deciding : k <= j
                             /\ Rule(rules[k], user) = "accept"

\* http_auth_basic_password_compare: 0 when the hash of what the client gave,
\* made the way of the backend, is the one in the file.
http_auth_basic_password_compare(cred) ==
  IF aconf \in {"htdigest", "htpasswd", "plain"} /\ cred.right THEN 0 ELSE -1

\* http_auth_basic_check: 1 or 0.
http_auth_basic_check(req, cred) ==
  IF /\ cred.wellformed                          \* base64, with a colon
     /\ http_auth_get_password(cred.user, req.realm)
     /\ http_auth_basic_password_compare(cred) = 0
     /\ http_auth_match_rules(req.rules, cred.user)
  THEN 1 ELSE 0

\* The age of a nonce, from the time that is written in it.
NonceFresh(ts) == ts >= 0 /\ ts <= clock /\ clock - ts <= NonceAge

\* The response of the client equals the hash over its secret, the nonce it
\* names, the method and the uri: cred.right abstracts all of these.
DigestMatches(cred) == cred.right

\* http_auth_digest_check: -1 for what cannot be checked, 0 for a wrong
\* answer, -2 for a right one with an old nonce, 1.
http_auth_digest_check(req, cred) ==
  IF aconf \notin {"htdigest", "plain"} \/ ~cred.wellformed THEN -1
  ELSE IF ~http_auth_get_password(cred.user, cred.realm) THEN 0
  ELSE IF ~cred.sameuri THEN -1
  ELSE IF ~DigestMatches(cred) \/ ~http_auth_match_rules(req.rules, cred.user) THEN 0
  ELSE IF ~NonceFresh(cred.ts) THEN -2
  ELSE 1

-----------------------------------------------------------------------------
\* The first directive whose key the path begins with.
Directive(path) ==
  LET hits == {k \in DOMAIN Requires : IsPrefix(Requires[k].prefix, path)}
  IN  IF hits = {} THEN 0 ELSE CHOOSE k \in hits : \A j \in hits : k <= j

AuthAnswered(path, status, stale) ==
  verdict' = [path |-> path, status |-> status, stale |-> stale, at |-> clock]

\* HANDLER_GO_ON is status 0.
GoOn(path) == AuthAnswered(path, 0, FALSE)

\* The check of the header: it counts only if it is of the method asked for.
Checked(req, cred) ==
  CASE cred.scheme = "Basic" /\ req.method = "basic"   -> http_auth_basic_check(req, cred)
    [] cred.scheme = "Digest" /\ req.method = "digest" -> http_auth_digest_check(req, cred)
    [] OTHER -> 0

\* https_add_ssl_entries: the client's certificate names REMOTE_USER, on every
\* pass; otherwise the environment is what the passes before have left.
Environment(cred) == IF cred.scheme = "extern" THEN cred.user ELSE remote_user

\* mod_auth_uri_handler.  An extern directive takes REMOTE_USER from whoever set
\* it; the checks remember the user in p->auth_user and set it from there.
mod_auth_uri_handler(path, cred) ==
  LET k   == Directive(path)
      req == Requires[k]
      res == Checked(req, cred)
      env == Environment(cred)
      checks == k # 0 /\ req.method # "extern"
  IN
  /\ CASE k = 0 -> GoOn(path)
       [] k # 0 /\ req.method = "extern" ->
            IF env # NoUser /\ http_auth_match_rules(req.rules, env)
              THEN GoOn(path) ELSE AuthAnswered(path, 401, FALSE)
       [] checks /\ res = 1  -> GoOn(path)
       [] checks /\ res = -1 -> AuthAnswered(path, 400, FALSE)
       [] OTHER -> AuthAnswered(path, 401, res = -2)
  /\ auth_user' = IF checks /\ res = 1 THEN cred.user ELSE auth_user
  /\ remote_user' = IF checks /\ res = 1 THEN auth_user' ELSE env
  /\ nonce' = IF checks /\ res \in {0, -2} /\ req.method = "digest" THEN clock ELSE nonce
  /\ asker' = [pass |-> asker.pass + 1, cred |-> cred,
               checked |-> asker.checked \/ (checks /\ res = 1)]
  /\ UNCHANGED <<clock, aconf>>

\* What a client can send: nothing, the answer of another layer, a Basic
\* answer, or a Digest answer to the last challenge.
Credentials ==
  {[scheme |-> "none"], [scheme |-> "other"]}
  \cup {[scheme |-> "extern", user |-> u] : u \in AuthUsers}
  \cup {[scheme |-> "Basic", user |-> u, right |-> r, wellformed |-> w] :
          u \in AuthUsers, r \in BOOLEAN, w \in BOOLEAN}
  \cup {[scheme |-> "Digest", user |-> u, realm |-> a, right |-> r, wellformed |-> w,
         sameuri |-> s, ts |-> nonce] :
          u \in AuthUsers, a \in AuthRealms, r \in BOOLEAN, w \in BOOLEAN, s \in BOOLEAN}

\* Somebody may know a secret only of a user that has an account, and an
\* answer that cannot be read is not right.
Possible(cred) ==
  cred.scheme \in {"Basic", "Digest"} /\ cred.right =>
    cred.wellformed /\ \E a \in Accounts : a.user = cred.user

AuthTick ==
  /\ clock < MaxClock /\ verdict = NotAsked
  /\ clock' = clock + 1
  /\ UNCHANGED <<nonce, auth_user, remote_user, asker, verdict, aconf>>

AuthDone_KeepsEnvironment ==
  /\ verdict # NotAsked
  /\ verdict' = NotAsked /\ asker' = NoRequest
  /\ UNCHANGED <<clock, nonce, auth_user, remote_user, aconf>>

\* connection_reset: the environment of the request is emptied.
AuthDone ==
  /\ verdict # NotAsked
  /\ verdict' = NotAsked /\ asker' = NoRequest
  /\ remote_user' = NoUser
  /\ UNCHANGED <<clock, nonce, auth_user, aconf>>

\* HANDLER_COMEBACK, of a request that passed (its handler redirects it) or was
\* refused (server.error-handler): it is prepared again for another path.
AuthComeback ==
  /\ verdict # NotAsked /\ asker.pass < MaxPasses
  /\ verdict' = NotAsked
  /\ UNCHANGED <<clock, nonce, auth_user, remote_user, asker, aconf>>

\* A request has the same header on every pass.
AuthNext ==
  \/ AuthTick \/ AuthDone \/ AuthComeback
  \/ /\ verdict = NotAsked
     /\ \E path \in AuthPaths, cred \in IF asker.pass = 0 THEN Credentials ELSE {asker.cred} :
          Possible(cred) /\ mod_auth_uri_handler(path, cred)

AuthSpec == AuthInit /\ [][AuthNext]_authVars

-----------------------------------------------------------------------------
AuthAsked == verdict # NotAsked
Granted == AuthAsked /\ verdict.status = 0
Guarded == Directive(verdict.path) # 0
Needed == Requires[Directive(verdict.path)]

\* mod_auth.c:182: a guarded request passes only for a user that the first
\* directive of its path names, who gave a right answer of the method that is
\* asked for, to a nonce that was good at that time.  An extern directive is
\* content with a user of the TLS layer or of a check of this same request on
\* the way here.
GrantedToTheNamed ==
  Granted /\ Guarded =>
    LET c == asker.cred IN
    /\ remote_user \in AuthUsers
    /\ \E k \in DOMAIN Needed.rules :
         \/ Needed.rules[k].key = "valid-user"
         \/ Needed.rules[k].key = "user" /\ Needed.rules[k].name = remote_user
    /\ \/ Needed.method = "extern" /\ (c.scheme = "extern" \/ asker.checked)
       \/ /\ c.scheme = IF Needed.method = "basic" THEN "Basic" ELSE "Digest"
          /\ c.right
          /\ c.scheme = "Digest" => verdict.at - c.ts <= NonceAge

\* mod_auth.c:328, connections.c:765: REMOTE_USER, which the handlers and the
\* log are told and an extern directive trusts, is the user who proved to be
\* that in this very request, although the environment lives as long as the
\* connection and p->auth_user belongs to all connections.
UserOfThisRequest ==
  remote_user # NoUser =>
    LET c == asker.cred IN
    /\ c.scheme \in {"extern", "Basic", "Digest"} /\ remote_user = c.user
    /\ c.scheme # "extern" => c.right /\ asker.checked

\* http_auth.c:1080: a right answer to the last challenge is turned away only
\* when the challenge is more than NonceAge old, and then the client is told
\* that nothing but the nonce was wrong, with a new one.
StaleIsTold ==
  LET c == asker.cred IN
  (/\ AuthAsked /\ Guarded /\ verdict.status = 401
   /\ c.scheme = "Digest" /\ Needed.method = "digest"
   /\ c.wellformed /\ c.sameuri /\ c.right
   /\ aconf = "htdigest"
   /\ [user |-> c.user, realm |-> c.realm] \in Accounts
   /\ Len(Needed.rules) = 1 /\ Needed.rules[1].key = "valid-user"
   /\ c.ts >= 0)
  => verdict.stale /\ nonce = verdict.at /\ verdict.at - c.ts > NonceAge

(* Who the request is from, what it may do, and when the client is told to ask again. *)
AuthInv == UserOfThisRequest /\ GrantedToTheNamed /\ StaleIsTold
=============================================================================
