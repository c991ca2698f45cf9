------------------------ MODULE DMServerSessionProofs ------------------------
(***************************************************************************)
(* Proofs about DMServerSession, for all nonces, profiles, servers and     *)
(* bounds: the types, that a nonce is stored only when the server has been *)
(* sent it, that two honest sides recover from a refusal and have the same *)
(* nonces stored after an undisturbed session, and that the session keeps  *)
(* the promises of ManagementSession.                                      *)
(*                                                                         *)
(* The invariant has three parts over the types.  CredsInv is about what   *)
(* is in the credentials and in the messages, RetryInv ties the retry      *)
(* counts to the refusals they stand for, and NonceInv says where a nonce  *)
(* that was generated for the server is until it is stored.  RecoverInv    *)
(* adds what each side of an honest exchange knows of the other's nonce,   *)
(* and AgreeInv how these are tied to the nonces in the tree.              *)
(***************************************************************************)
EXTENDS DMServerSession, TLAPS

CredsOK(c) == c \in Credentials /\ (c.srvType > CHAL_NONE => c.srvNonce \in Nonces)

CredsInv ==
    /\ CredsOK(creds)
    /\ pc # "idle" => creds.cliType >= CHAL_NONE
    /\ req.chal.type >= CHAL_MD5 => req.chal.nonce \in Nonces
    /\ answer.hmac # NoNonce => answer.cred.type = CHAL_NONE

RetryInv ==
    /\ pc = "idle" => sess = NewSession /\ ~executed /\ refusals = 0
    /\ pc \in {"idle", "send", "exchange", "loop"} =>
           sess.srvRetry <= MAX_AUTH_RETRY
    /\ pc \in {"idle", "send", "exchange", "loop", "status"} =>
           sess.cliRetry <= MAX_AUTH_RETRY
    /\ pc \in {"status", "commands"} => ~executed
    /\ sess.srvRetry <= refusals /\ refusals <= sess.srvRetry + 1
    /\ "server" \in sess.auth => refusals = 0

NoncesOf(t) == {t.srv[p] : p \in SrvProfiles}
Stored == NoncesOf(tree) \cup NoncesOf(disk)
Known == delivered \cup {Resync}

NonceInv ==
    /\ Stored \subseteq Known
    /\ sess.generated =>
           IF pc \in {"loop", "status"} THEN creds.srvNonce \in Known \cup {NoNonce}
           ELSE req.chal.nonce = creds.srvNonce

IInv == TypeOK /\ CredsInv /\ RetryInv /\ NonceInv

----------------------------------------------------------------------------
(* The credentials.                                                        *)

USE DEF CHAL_UNDEFINED, CHAL_NONE, CHAL_BASIC, CHAL_MD5, CHAL_HMAC, Types,
        MAX_AUTH_RETRY, Many

LEMMA LeastProfile ==
    ASSUME NEW type \in -1..3, {p \in SrvProfiles : p >= type} # {},
           NEW p, p = CHOOSE q \in {r \in SrvProfiles : r >= type} :
                          \A r \in {x \in SrvProfiles : x >= type} : q <= r
    PROVE  p \in SrvProfiles /\ p \in 1..3
<1> DEFINE found == {r \in SrvProfiles : r >= type}
<1>1. found \subseteq {1, 2, 3} /\ found # {}
  BY ProfileAssumption
<1> HIDE DEF found
<1>2. \E q \in found : \A r \in found : q <= r
  <2>1. CASE 1 \in found
    BY <1>1, <2>1
  <2>2. CASE 1 \notin found /\ 2 \in found
    BY <1>1, <2>2
  <2>3. CASE found = {3}
    BY <2>3
  <2> QED
    BY <1>1, <2>1, <2>2, <2>3
<1>3. p \in found
  BY <1>2 DEF found
<1> QED
  BY <1>1, <1>3 DEF found

\* What SetPrefServerAuth returns: the server's part of the credentials, with
\* a nonce of the tree when it has changed.
LEMMA ServerAuth ==
    ASSUME NEW c, CredsOK(c), NEW t \in Accounts, NEW type \in -1..3,
           NEW d, d = SetPrefServerAuth(c, t, type)
    PROVE  /\ CredsOK(d)
           /\ d.cliType = c.cliType
           /\ d.srvNonce \in {c.srvNonce} \cup NoncesOf(t)
<1> DEFINE found == {p \in SrvProfiles : p >= type}
           p == CHOOSE q \in found : \A r \in found : q <= r
<1>1. CASE c.srvType = type
  BY <1>1 DEF SetPrefServerAuth
<1>2. CASE c.srvType # type /\ type = CHAL_NONE
  BY <1>2 DEF SetPrefServerAuth, CredsOK, Credentials
<1>3. CASE c.srvType # type /\ type # CHAL_NONE /\ found = {}
  BY <1>3 DEF SetPrefServerAuth, CredsOK, Credentials
<1>4. CASE c.srvType # type /\ type # CHAL_NONE /\ found # {}
  <2>1. p \in SrvProfiles /\ p \in 1..3
    BY <1>4, LeastProfile
  <2>2. d = [c EXCEPT !.srvType = p, !.srvURI = p, !.srvNonce = t.srv[p]]
    BY <1>4 DEF SetPrefServerAuth
  <2>3. t.srv[p] \in Nonces
    BY <2>1 DEF Accounts
  <2> HIDE DEF p
  <2>4. c \in Credentials /\ p \in CHAL_UNDEFINED..CHAL_HMAC
        /\ p \in SrvProfiles \cup {CHAL_NONE} /\ t.srv[p] \in Nonces0
    BY <2>1, <2>3 DEF CredsOK, Nonces0
  <2>5. d \in Credentials
    BY <2>2, <2>4 DEF Credentials
  <2>6. d.srvNonce = t.srv[p] /\ d.cliType = c.cliType
    BY <2>2, <2>4 DEF Credentials
  <2> QED
    BY <2>1, <2>3, <2>5, <2>6 DEF CredsOK, NoncesOf
<1> QED
  BY <1>1, <1>2, <1>3, <1>4

LEMMA ClientProfile ==
    ASSUME NEW c, CredsOK(c), NEW t \in Accounts,
           NEW p \in CliProfiles, NEW type \in 0..3,
           NEW d, d = UseClientProfile(c, t, p, type)
    PROVE  CredsOK(d) /\ d.cliType = type /\ d.srvNonce = c.srvNonce
           /\ d.srvType = c.srvType
<1> DEFINE n == IF p \in SrvProfiles /\ t.srv[p] = Resync THEN Resync
                ELSE t.cli[p]
           u == IF p \in SrvProfiles THEN p ELSE CHAL_NONE
           b == c.cliType # CHAL_UNDEFINED \/ c.updated
<1>1. n \in Nonces0 /\ u \in SrvProfiles \cup {CHAL_NONE} /\ b \in BOOLEAN
  BY NonceAssumption DEF Accounts, Nonces0
<1>2. d = [c EXCEPT !.cliType = type, !.cliURI = p, !.cliNonce = n, !.srvURI = u,
                    !.updated = b]
  BY DEF UseClientProfile
<1>3. c \in Credentials /\ type \in CHAL_UNDEFINED..CHAL_HMAC
      /\ p \in CliProfiles \cup {CHAL_NONE}
  BY DEF CredsOK
<1> HIDE DEF n, u, b
<1>4. d \in Credentials
  BY <1>1, <1>2, <1>3 DEF Credentials
<1>5. d.cliType = type /\ d.srvNonce = c.srvNonce /\ d.srvType = c.srvType
  BY <1>2, <1>3 DEF Credentials
<1> QED
  BY <1>4, <1>5 DEF CredsOK

LEMMA ClientAuth ==
    ASSUME NEW c, CredsOK(c), c.cliType >= 0, NEW t \in Accounts,
           NEW type \in 0..3, NEW d, d = SetPrefClientAuth(c, t, type)
    PROVE  CredsOK(d) /\ d.cliType >= 0 /\ d.srvNonce = c.srvNonce
           /\ d.srvType = c.srvType
<1>1. CASE c.cliType = type
  BY <1>1 DEF SetPrefClientAuth
<1>2. CASE c.cliType # type /\ type = CHAL_NONE
  BY <1>2, ClientProfile, ProfileAssumption DEF SetPrefClientAuth
<1>3. CASE c.cliType # type /\ type # CHAL_NONE /\ type \in CliProfiles
  BY <1>3, ClientProfile DEF SetPrefClientAuth
<1>4. CASE c.cliType # type /\ type # CHAL_NONE /\ type \notin CliProfiles
  BY <1>4 DEF SetPrefClientAuth, CredsOK, Credentials
<1> QED
  BY <1>1, <1>2, <1>3, <1>4

LEMMA NewCredsOK == CredsOK(NewCreds)
BY DEF NewCreds, CredsOK, Credentials, Nonces0

LEMMA InitialValues ==
    ASSUME NEW t \in Accounts
    PROVE  CredsOK(LoadInitialValues(t)) /\ LoadInitialValues(t).cliType >= 0
           /\ LoadInitialValues(t).srvType = CHAL_UNDEFINED
<1> DEFINE last == IF t.pref = CHAL_NONE THEN SecurityLevel ELSE t.pref
           p == IF last \in CliProfiles THEN last ELSE FirstCli
<1>1. last \in 0..3
  BY LevelAssumption DEF Accounts
<1>2. p \in CliProfiles /\ p \in 0..3
  <2>1. CliProfiles \subseteq 0..3 /\ FirstCli \in CliProfiles
    BY ProfileAssumption
  <2> HIDE DEF last
  <2> QED
    BY <2>1
<1>3. LoadInitialValues(t) \in {UseClientProfile(NewCreds, t, FirstCli, CHAL_NONE),
                                UseClientProfile(NewCreds, t, p, p)}
  <2>1. CASE last = CHAL_NONE
    BY <2>1 DEF LoadInitialValues
  <2>2. CASE last # CHAL_NONE
    BY <2>2 DEF LoadInitialValues
  <2> QED
    BY <2>1, <2>2
<1> HIDE DEF last, p
<1>4. PICK q \in CliProfiles, type \in 0..3 :
          LoadInitialValues(t) = UseClientProfile(NewCreds, t, q, type)
  BY <1>2, <1>3, ProfileAssumption
<1>5. NewCreds.srvType = CHAL_UNDEFINED
  BY DEF NewCreds
<1> QED
  BY <1>4, <1>5, NewCredsOK, ClientProfile

----------------------------------------------------------------------------
(* The answers of the server.                                              *)

Servers == [own : Nonces, given : Nonces, type : Types, known : BOOLEAN]

LEMMA FreshNonces == ASSUME NEW used PROVE Fresh(used) \subseteq Nonces \ used
BY DEF Fresh

LEMMA CredentialTyped ==
    ASSUME NEW type \in Types \cup {CHAL_NONE}, NEW n \in Nonces0
    PROVE  Credential(type, n) \in Challenges
BY DEF Credential, Challenges, NoChallenge, Nonces0

ReplyOK(r) == /\ r.server \in Servers /\ r.reply \in Answers
              /\ r.reply.hmac # NoNonce => r.reply.cred.type = CHAL_NONE

LEMMA HonestRepliesOK ==
    ASSUME TypeOK, CredsInv, NEW r \in HonestReplies
    PROVE  ReplyOK(r)
<1> DEFINE own == IF req.chal.type >= CHAL_MD5 THEN req.chal.nonce ELSE srv.own
           type == IF req.chal.type # CHAL_NONE THEN req.chal.type ELSE srv.type
           right == /\ SentType(req) >= Demand
                    /\ SentType(req) = CHAL_BASIC \/ SentNonce(req) = srv.given
           known == right \/ (srv.known /\ Demand # CHAL_HMAC)
<1>1. PICK next \in Fresh(CliNoncesInUse), chal \in {CHAL_NONE, Demand},
           commands \in BOOLEAN :
          r = [server |-> [own |-> own, type |-> type, known |-> known,
                      given |-> IF chal # CHAL_NONE THEN next ELSE srv.given],
               reply |-> [hmac |-> IF type = CHAL_HMAC THEN own ELSE NoNonce,
                     cred |-> IF type = CHAL_HMAC THEN NoChallenge
                              ELSE Credential(type, own),
                     chal |-> IF chal = CHAL_NONE THEN NoChallenge
                              ELSE [type |-> chal, nonce |-> next],
                     status |-> IF known THEN "ok" ELSE "unauthorized",
                     commands |-> commands]]
  BY DEF HonestReplies
<1>2. next \in Nonces
  BY FreshNonces
<1>3. req.chal \in Challenges /\ srv \in Servers
  BY DEF TypeOK, Requests, Servers
<1>4. own \in Nonces /\ type \in Types
  BY <1>3 DEF CredsInv, Servers, Challenges
<1>5. known \in BOOLEAN
  OBVIOUS
<1> HIDE DEF own, type, known
<1>6. r.server \in Servers
  BY <1>1, <1>2, <1>3, <1>4, <1>5 DEF Servers
<1>7. Credential(type, own) \in Challenges /\ NoChallenge \in Challenges
  BY <1>4, CredentialTyped DEF Challenges, NoChallenge, Nonces0
<1>8. (IF chal = CHAL_NONE THEN NoChallenge ELSE [type |-> chal, nonce |-> next])
          \in Challenges
  BY <1>2, <1>7, LevelAssumption DEF Challenges, Nonces0
<1>9. r.reply \in Answers
  BY <1>1, <1>4, <1>5, <1>7, <1>8 DEF Answers, Nonces0
<1>10. r.reply.hmac # NoNonce => r.reply.cred.type = CHAL_NONE
  BY <1>1 DEF NoChallenge
<1> QED
  BY <1>6, <1>9, <1>10 DEF ReplyOK

LEMMA OtherRepliesOK ==
    ASSUME TypeOK, NEW r \in OtherReplies
    PROVE  ReplyOK(r)
<1> DEFINE nonces == {creds.srvNonce, Resync} \ {NoNonce}
           creds0 == {NoChallenge} \cup [type : {CHAL_MD5}, nonce : nonces]
                         \cup [type : {CHAL_BASIC}, nonce : {NoNonce, Resync}]
           chals == {NoChallenge, [type |-> CHAL_BASIC, nonce |-> NoNonce]}
               \cup [type : {CHAL_MD5, CHAL_HMAC}, nonce : {FirstNonce, NoNonce}]
<1>1. PICK c \in (nonces \X {NoChallenge}) \cup ({NoNonce} \X creds0),
           chal \in chals, status \in {"ok", "unauthorized"},
           commands \in BOOLEAN :
          r = [server |-> srv,
               reply |-> [hmac |-> c[1], cred |-> c[2], chal |-> chal,
                          status |-> status, commands |-> commands]]
  BY DEF OtherReplies
<1>2. nonces \subseteq Nonces /\ FirstNonce \in Nonces /\ Resync \in Nonces
  BY NonceAssumption DEF TypeOK, Credentials, Nonces0, FirstNonce
<1>3. NoChallenge \in Challenges /\ NoChallenge.type = CHAL_NONE
  BY DEF NoChallenge, Challenges, Nonces0
<1>4. creds0 \subseteq Challenges
  BY <1>2, <1>3 DEF Challenges, Nonces0
<1>5. chals \subseteq Challenges
  BY <1>2, <1>3 DEF Challenges, Nonces0
<1>6. /\ c[1] \in Nonces0 /\ c[2] \in Challenges
      /\ c[1] # NoNonce => c[2].type = CHAL_NONE
  <2> HIDE DEF creds0, chals
  <2>1. CASE c \in nonces \X {NoChallenge}
    BY <1>2, <1>3, <2>1 DEF Nonces0
  <2>2. CASE c \in {NoNonce} \X creds0
    BY <1>4, <2>2 DEF Nonces0
  <2> QED
    BY <2>1, <2>2
<1> HIDE DEF creds0, chals
<1>7. r.reply \in Answers
  BY <1>1, <1>5, <1>6 DEF Answers
<1>8. r.server \in Servers
  BY <1>1 DEF TypeOK, Servers
<1> QED
  BY <1>1, <1>6, <1>7, <1>8 DEF ReplyOK

LEMMA RepliesOK ==
    ASSUME TypeOK, CredsInv, NEW r \in Replies
    PROVE  ReplyOK(r)
BY HonestRepliesOK, OtherRepliesOK DEF Replies

----------------------------------------------------------------------------
(* What the client makes of an answer.                                     *)

LEMMA AuthorizeTyped ==
    ASSUME NEW m \in Sessions, NEW ok \in BOOLEAN, NEW a, a = Authorize(m, ok)
    PROVE  /\ a \in Sessions /\ ("server" \in a.auth <=> ok)
           /\ a.srvRetry = m.srvRetry /\ a.cliRetry = m.cliRetry
           /\ a.generated = m.generated
BY DEF Authorize, Sessions

\* c comes from the credentials b without a change to the client's part.
From(b, c) ==
    /\ CredsOK(c) /\ c.cliType = b.cliType
    /\ c.srvNonce \in {b.srvNonce} \cup NoncesOf(tree)

LEMMA ServerAuthFrom ==
    ASSUME tree \in Accounts, NEW b, NEW c, From(b, c), NEW type \in -1..3
    PROVE  From(b, SetPrefServerAuth(c, tree, type))
<1> DEFINE d == SetPrefServerAuth(c, tree, type)
<1>0. CredsOK(c) /\ d = SetPrefServerAuth(c, tree, type)
  BY DEF From
<1> HIDE DEF d
<1>1. /\ CredsOK(d) /\ d.cliType = c.cliType
      /\ d.srvNonce \in {c.srvNonce} \cup NoncesOf(tree)
  BY <1>0, ServerAuth
<1>2. From(b, d)
  BY <1>1 DEF From
<1> QED
  BY <1>2 DEF d

\* The retries are counted with the refusal, which the HTTP header's
\* credentials alone decide unless there are none.
LEMMA RecvPackageTyped ==
    ASSUME TypeOK, CredsInv, NEW m \in Sessions, m.srvRetry <= MAX_AUTH_RETRY,
           NEW r, r = RecvPackage(creds, m)
    PROVE  /\ From(creds, r[1]) /\ r[2] \in Sessions
           /\ r[2].cliRetry = m.cliRetry /\ r[2].generated = m.generated
           /\ \/ "server" \in r[2].auth /\ r[2].srvRetry = 0
                 /\ (answer.hmac = NoNonce => "server" \in m.auth)
              \/ "server" \notin r[2].auth /\ r[2].srvRetry = m.srvRetry + 1
<1> DEFINE c1 == SetPrefServerAuth(creds, tree, CHAL_HMAC)
           ok == answer.hmac = c1.srvNonce
           a == Authorize(m, ok)
<1>1. CredsOK(creds) /\ tree \in Accounts
  BY DEF TypeOK, CredsInv
<1>2. From(creds, c1) /\ From(creds, creds)
  <2>1. From(creds, creds)
    BY <1>1 DEF From
  <2> QED
    BY <1>1, <2>1, ServerAuthFrom
<1>3. /\ a \in Sessions /\ ("server" \in a.auth <=> ok)
      /\ a.srvRetry = m.srvRetry /\ a.cliRetry = m.cliRetry
      /\ a.generated = m.generated
  BY AuthorizeTyped
<1>4. CASE answer.hmac # NoNonce
  <2>1. r = <<c1, [a EXCEPT !.missing = FALSE,
                            !.srvRetry = IF ok THEN 0 ELSE @ + 1]>>
    BY <1>4 DEF RecvPackage
  <2> HIDE DEF a, c1, ok
  <2> DEFINE k == IF ok THEN 0 ELSE a.srvRetry + 1
             e == [a EXCEPT !.missing = FALSE, !.srvRetry = k]
  <2>2. k \in 0..MAX_AUTH_RETRY + 1 /\ (ok => k = 0) /\ (~ok => k = m.srvRetry + 1)
    BY <1>3 DEF Sessions
  <2> HIDE DEF k
  <2>3. /\ e \in Sessions /\ e.auth = a.auth /\ e.srvRetry = k
        /\ e.cliRetry = a.cliRetry /\ e.generated = a.generated
    BY <1>3, <2>2 DEF Sessions
  <2> HIDE DEF e
  <2>4. r[1] = c1 /\ r[2] = e
    BY <2>1 DEF k, e
  <2> QED
    BY <1>2, <1>3, <1>4, <2>2, <2>3, <2>4
<1> HIDE DEF a, c1, ok
<1>5. CASE answer.hmac = NoNonce /\ "server" \in m.auth
  <2>1. r[1] = creds /\ r[2] = [m EXCEPT !.srvRetry = 0]
    BY <1>5 DEF RecvPackage
  <2> QED
    BY <1>2, <1>5, <2>1 DEF Sessions
<1>6. CASE answer.hmac = NoNonce /\ "server" \notin m.auth
  <2>1. r[1] = creds /\ r[2] = [m EXCEPT !.missing = TRUE, !.srvRetry = @ + 1]
    BY <1>6 DEF RecvPackage
  <2> DEFINE k == m.srvRetry + 1
  <2>2. k \in 0..MAX_AUTH_RETRY + 1
    BY DEF Sessions
  <2> HIDE DEF k
  <2>3. r[2] \in Sessions /\ r[2].auth = m.auth /\ r[2].srvRetry = k
        /\ r[2].cliRetry = m.cliRetry /\ r[2].generated = m.generated
    <3>1. r[2] = [m EXCEPT !.missing = TRUE, !.srvRetry = k]
      BY <2>1 DEF k
    <3> QED
      BY <2>2, <3>1 DEF Sessions
  <2> USE DEF k
  <2> QED
    BY <1>2, <1>6, <2>1, <2>3
<1> QED
  BY <1>4, <1>5, <1>6

LEMMA CheckAuthorizationTyped ==
    ASSUME TypeOK, NEW c, From(creds, c), NEW m \in Sessions,
           NEW r, r = CheckAuthorization(c, m)
    PROVE  /\ From(creds, r[1]) /\ r[2] \in Sessions
           /\ r[2].cliRetry = m.cliRetry /\ r[2].generated = m.generated
           /\ r[2].srvRetry = m.srvRetry
           /\ answer.cred.type = CHAL_NONE /\ "server" \in m.auth =>
                  "server" \in r[2].auth
<1> DEFINE c0 == IF c.srvType <= CHAL_NONE
                 THEN SetPrefServerAuth(c, tree, SecurityLevel) ELSE c
           m0 == IF c0.srvType = CHAL_NONE THEN Authorize(m, TRUE) ELSE m
           c1 == SetPrefServerAuth(c0, tree, answer.cred.type)
           right == IF answer.cred.type = CHAL_BASIC
                    THEN NoNonce ELSE c1.srvNonce
           ok == answer.cred.nonce = right
           weak == \/ c0.srvType = CHAL_HMAC
                   \/ answer.cred.type = CHAL_NONE
                   \/ answer.cred.type < c0.srvType
<1>1. tree \in Accounts /\ answer.cred.type \in 0..3 /\ SecurityLevel \in 0..3
  BY LevelAssumption DEF TypeOK, Answers, Challenges
<1>2. From(creds, c0)
  BY <1>1, ServerAuthFrom
<1> HIDE DEF c0
<1>3. From(creds, c1)
  BY <1>1, <1>2, ServerAuthFrom
<1>4. /\ m0 \in Sessions /\ ("server" \in m.auth => "server" \in m0.auth)
      /\ m0.srvRetry = m.srvRetry /\ m0.cliRetry = m.cliRetry
      /\ m0.generated = m.generated
  BY AuthorizeTyped
<1> HIDE DEF m0, c1, ok
<1>5. CASE weak
  <2>1. r = <<c0, m0>>
    BY <1>5 DEF CheckAuthorization, c0, m0
  <2> QED
    BY <1>2, <1>4, <2>1
<1>6. CASE ~weak
  <2>1. r = <<c1, Authorize(m0, ok)>> /\ answer.cred.type # CHAL_NONE
    BY <1>6 DEF CheckAuthorization, c0, m0, c1, ok
  <2>2. ok \in BOOLEAN
    BY DEF ok
  <2> QED
    BY <1>3, <1>4, <2>1, <2>2, AuthorizeTyped
<1> QED
  BY <1>5, <1>6

----------------------------------------------------------------------------
(* The steps.                                                              *)

USE DEF history

LEMMA NewSessionTyped ==
    NewSession \in Sessions /\ NewSession.auth = {} /\ ~NewSession.generated
        /\ NewSession.srvRetry = 0 /\ NewSession.cliRetry = 0
BY DEF NewSession, Sessions

LEMMA NoMessage ==
    /\ NoRequest \in Requests /\ NoRequest.chal.type = CHAL_NONE
    /\ NoAnswer \in Answers /\ NoAnswer.hmac = NoNonce
    /\ NoChallenge \in Challenges
BY DEF NoRequest, NoAnswer, NoChallenge, Requests, Answers, Challenges, Nonces0

LEMMA InitStep == Init => IInv
<1> SUFFICES ASSUME Init PROVE IInv
  OBVIOUS
<1>1. FirstNonce \in Nonces /\ Resync \in Nonces
  BY NonceAssumption DEF FirstNonce
<1>2. tree \in Accounts /\ disk = tree
  BY <1>1 DEF Init, Accounts
<1>3. TypeOK
  <2>1. srv \in [own : Nonces, given : Nonces, type : Types, known : BOOLEAN]
    BY <1>1, LevelAssumption DEF Init
  <2>2. tries \in 0..MaxTries - 1 /\ sessions \in 0..MaxSessions
    BY BoundAssumption DEF Init
  <2>3. creds \in Credentials
    BY NewCredsOK DEF Init, CredsOK
  <2>4. sess \in Sessions /\ req \in Requests /\ answer \in Answers
    BY NewSessionTyped, NoMessage DEF Init
  <2>5. delivered \subseteq Nonces /\ refusals \in 0..Many /\ losses \in 0..3
    BY <1>1 DEF Init
  <2>6. cancel \in BOOLEAN /\ quiet \in BOOLEAN /\ executed \in BOOLEAN
    BY DEF Init
  <2>7. pc \in {"idle", "send", "exchange", "loop", "status", "commands", "check"}
        /\ result \in {"none", "success", "fail", "auth_fail"}
    BY DEF Init
  <2> QED
    BY <1>2, <2>1, <2>2, <2>3, <2>4, <2>5, <2>6, <2>7 DEF TypeOK
<1>4. CredsInv
  BY NewCredsOK, NoMessage DEF Init, CredsInv
<1>5. RetryInv
  BY NewSessionTyped DEF Init, RetryInv
<1>6. NonceInv
  <2>1. tree.srv = [p \in SrvProfiles |-> FirstNonce]
    BY DEF Init
  <2>2. NoncesOf(tree) \subseteq {FirstNonce} /\ disk = tree
    BY <2>1 DEF NoncesOf, Init
  <2> QED
    BY <2>2, NewSessionTyped DEF Init, NonceInv, Stored, Known
<1> QED
  BY <1>3, <1>4, <1>5, <1>6 DEF IInv

\* The session returns and saves the tree t.
LEMMA ReturnStep ==
    ASSUME IInv, NEW r \in {"none", "success", "fail", "auth_fail"},
           NEW t \in Accounts, NoncesOf(t) \subseteq Stored, Return(r, t),
           UNCHANGED <<cancel, sessions>>, srv' \in Servers,
           delivered' \subseteq Nonces, Stored \subseteq delivered' \cup {Resync},
           losses' \in 0..3, quiet' \in BOOLEAN
    PROVE  IInv'
<1>1. /\ pc' = "idle" /\ result' = r /\ tree' = t /\ disk' = t
      /\ creds' = NewCreds /\ sess' = NewSession
      /\ req' = NoRequest /\ answer' = NoAnswer /\ tries' = 0
      /\ refusals' = 0 /\ executed' = FALSE
  BY DEF Return
<1>2. TypeOK'
  <2>1. tries' \in 0..MaxTries - 1
    BY <1>1, BoundAssumption
  <2>2. creds' \in Credentials
    BY <1>1, NewCredsOK DEF CredsOK
  <2>3. sess' \in Sessions /\ req' \in Requests /\ answer' \in Answers
    BY <1>1, NewSessionTyped, NoMessage
  <2>4. /\ tree' \in Accounts /\ disk' \in Accounts /\ sessions' \in 0..MaxSessions
        /\ srv' \in [own : Nonces, given : Nonces, type : Types, known : BOOLEAN]
    BY <1>1 DEF IInv, TypeOK, Servers
  <2>5. delivered' \subseteq Nonces /\ refusals' \in 0..Many /\ losses' \in 0..3
    BY <1>1
  <2>6. cancel' \in BOOLEAN /\ quiet' \in BOOLEAN /\ executed' \in BOOLEAN
    BY <1>1 DEF IInv, TypeOK
  <2>7. pc' = "idle" /\ result' \in {"none", "success", "fail", "auth_fail"}
    BY <1>1
  <2> QED
    BY <2>1, <2>2, <2>3, <2>4, <2>5, <2>6, <2>7 DEF TypeOK
<1>3. CredsInv'
  BY <1>1, NewCredsOK, NoMessage DEF CredsInv
<1>4. RetryInv'
  BY <1>1, NewSessionTyped DEF RetryInv
<1>5. NonceInv'
  <2>1. Stored' = NoncesOf(t)
    BY <1>1 DEF Stored, NoncesOf
  <2> QED
    BY <1>1, <2>1, NewSessionTyped DEF NonceInv, Known
<1> QED
  BY <1>2, <1>3, <1>4, <1>5 DEF IInv

\* It returns with the tree that there is.
LEMMA ReturnTree ==
    ASSUME IInv, NEW r \in {"none", "success", "fail", "auth_fail"},
           Return(r, tree), UNCHANGED <<cancel, srv, sessions, delivered, losses>>,
           quiet' \in BOOLEAN
    PROVE  IInv'
<1>1. tree \in Accounts /\ NoncesOf(tree) \subseteq Stored
  BY DEF IInv, TypeOK, Stored
<1>2. srv' \in Servers /\ delivered' \subseteq Nonces /\ losses' \in 0..3
      /\ Stored \subseteq delivered' \cup {Resync}
  BY DEF IInv, TypeOK, Servers, NonceInv, Known
<1> QED
  BY <1>1, <1>2, ReturnStep

LEMMA StartSessionStep == ASSUME IInv, StartSession PROVE IInv'
<1> DEFINE c == LoadInitialValues(tree)
           cred == HeaderCred(c, c.cliType)
<1>1. tree \in Accounts
  BY DEF IInv, TypeOK
<1>2. CredsOK(c) /\ c.cliType >= 0
  BY <1>1, InitialValues
<1>3. cred \in Challenges
  BY <1>2 DEF CredsOK, Credentials, HeaderCred, NoChallenge, Challenges, Nonces0
<1> HIDE DEF c, cred
<1>4. /\ pc' = "send" /\ creds' = c /\ req' = [NoRequest EXCEPT !.cred = cred]
      /\ sess' = NewSession /\ answer' = NoAnswer
      /\ cancel' = FALSE /\ sessions' = sessions + 1 /\ sessions < MaxSessions
      /\ srv' = [srv EXCEPT !.known = FALSE, !.type = SrvAuth]
      /\ refusals' = 0 /\ losses' = 0 /\ quiet' = TRUE
      /\ executed' = FALSE /\ result' = "none"
      /\ UNCHANGED <<tries, tree, disk, delivered>>
  BY DEF StartSession, c, cred
<1>5. req' \in Requests /\ req'.chal.type = CHAL_NONE
  BY <1>3, <1>4, NoMessage DEF Requests, NoRequest
<1>6. TypeOK'
  <2>1. srv' \in [own : Nonces, given : Nonces, type : Types, known : BOOLEAN]
    BY <1>4, LevelAssumption DEF IInv, TypeOK
  <2>2. sessions' \in 0..MaxSessions
    BY <1>4, BoundAssumption DEF IInv, TypeOK
  <2>3. creds' \in Credentials
    BY <1>2, <1>4 DEF CredsOK
  <2>4. sess' \in Sessions /\ req' \in Requests /\ answer' \in Answers
    BY <1>4, <1>5, NewSessionTyped, NoMessage
  <2>5. tree' \in Accounts /\ disk' \in Accounts /\ tries' \in 0..MaxTries - 1
    BY <1>4 DEF IInv, TypeOK
  <2>6. delivered' \subseteq Nonces /\ refusals' \in 0..Many /\ losses' \in 0..3
    BY <1>4 DEF IInv, TypeOK
  <2>7. cancel' \in BOOLEAN /\ quiet' \in BOOLEAN /\ executed' \in BOOLEAN
    BY <1>4
  <2>8. pc' = "send" /\ result' = "none"
    BY <1>4
  <2> QED
    BY <2>1, <2>2, <2>3, <2>4, <2>5, <2>6, <2>7, <2>8 DEF TypeOK
<1>7. CredsInv'
  BY <1>2, <1>4, <1>5, NoMessage DEF CredsInv
<1>8. RetryInv'
  BY <1>4, NewSessionTyped DEF RetryInv
<1>9. NonceInv'
  BY <1>4, NewSessionTyped DEF IInv, NonceInv, Stored, NoncesOf, Known
<1> QED
  BY <1>6, <1>7, <1>8, <1>9 DEF IInv

LEMMA NotifyStep ==
    ASSUME IInv, NEW n \in Nonces, NEW lost \in BOOLEAN, Notify(n, lost)
    PROVE  IInv'
<1>1. /\ pc = "idle" /\ sessions < MaxSessions /\ sessions' = sessions + 1
      /\ srv' = IF n = Resync THEN [srv EXCEPT !.own = n, !.given = n] ELSE srv
      /\ tree' = IF ~lost /\ n = Resync /\ tree.srv[NotifyProfile] # n
                 THEN [tree EXCEPT !.srv[NotifyProfile] = Resync] ELSE tree
      /\ quiet' = FALSE
      /\ UNCHANGED <<pc, creds, sess, req, answer, tries, disk, cancel,
                     delivered, refusals, losses, executed, result>>
  BY DEF Notify
<1>2. tree' \in Accounts /\ NoncesOf(tree)' \subseteq NoncesOf(tree) \cup {Resync}
  <2>1. tree \in Accounts /\ Resync \in Nonces /\ NotifyProfile \in SrvProfiles
    BY NonceAssumption, ProfileAssumption DEF IInv, TypeOK
  <2>2. CASE tree' = tree
    BY <2>1, <2>2 DEF NoncesOf
  <2>3. CASE tree' = [tree EXCEPT !.srv[NotifyProfile] = Resync]
    <3>1. tree'.srv = [tree.srv EXCEPT ![NotifyProfile] = Resync]
      BY <2>1, <2>3 DEF Accounts
    <3>2. tree' \in Accounts
      BY <2>1, <2>3 DEF Accounts
    <3>3. \A p \in SrvProfiles : tree'.srv[p] \in {tree.srv[p], Resync}
      BY <2>1, <3>1 DEF Accounts
    <3> QED
      BY <3>2, <3>3 DEF NoncesOf
  <2> QED
    BY <1>1, <2>2, <2>3
<1>3. TypeOK'
  <2>1. srv' \in [own : Nonces, given : Nonces, type : Types, known : BOOLEAN]
    BY <1>1 DEF IInv, TypeOK
  <2>2. sessions' \in 0..MaxSessions
    BY <1>1, BoundAssumption DEF IInv, TypeOK
  <2>3. quiet' \in BOOLEAN
    BY <1>1
  <2> QED
    BY <1>1, <1>2, <2>1, <2>2, <2>3 DEF IInv, TypeOK
<1>4. CredsInv' /\ RetryInv'
  BY <1>1 DEF IInv, CredsInv, CredsOK, RetryInv
<1>5. NonceInv'
  <2>1. NoncesOf(disk)' = NoncesOf(disk)
    BY <1>1 DEF NoncesOf
  <2>2. Stored' \subseteq Known'
    BY <1>1, <1>2, <2>1 DEF IInv, NonceInv, Stored, Known
  <2> QED
    BY <1>1, <2>2 DEF IInv, NonceInv, Known
<1> QED
  BY <1>3, <1>4, <1>5 DEF IInv

LEMMA SendPackageStep == ASSUME IInv, SendPackage PROVE IInv'
<1> DEFINE h == IF creds.cliType = CHAL_HMAC THEN creds.cliNonce ELSE NoNonce
<1>1. /\ pc = "send" /\ pc' = "exchange" /\ tries' = 0
      /\ req' = [req EXCEPT !.hmac = h]
      /\ UNCHANGED <<creds, sess, answer, tree, disk, cancel, srv, sessions,
                     delivered, refusals, losses, quiet, executed, result>>
  BY DEF SendPackage
<1>2. h \in Nonces0
  BY DEF IInv, TypeOK, Credentials, Nonces0
<1> HIDE DEF h
<1>3. req' \in Requests /\ req'.chal = req.chal
  BY <1>1, <1>2 DEF IInv, TypeOK, Requests
<1>4. TypeOK'
  <2>1. tries' \in 0..MaxTries - 1
    BY <1>1, BoundAssumption
  <2> QED
    BY <1>1, <1>3, <2>1 DEF IInv, TypeOK
<1>5. CredsInv' /\ RetryInv'
  BY <1>1, <1>3 DEF IInv, CredsInv, CredsOK, RetryInv
<1>6. NonceInv'
  BY <1>1, <1>3 DEF IInv, NonceInv, Stored, NoncesOf, Known
<1> QED
  BY <1>4, <1>5, <1>6 DEF IInv

\* The exchange has failed, and the server may have had the request.
LEMMA RetryStep ==
    ASSUME IInv, pc = "exchange", Retry, UNCHANGED <<cancel, sessions>>,
           srv' \in Servers, losses' \in 0..3,
           delivered' \subseteq Nonces, Stored \subseteq delivered' \cup {Resync}
    PROVE  IInv'
<1>1. CASE tries + 1 < MaxTries
  <2>1. /\ tries' = tries + 1 /\ quiet' = FALSE
        /\ UNCHANGED <<pc, creds, sess, req, answer, tree, disk,
                       refusals, executed, result>>
    BY <1>1 DEF Retry
  <2>2. TypeOK'
    <3>1. tries' \in 0..MaxTries - 1
      BY <1>1, <2>1, BoundAssumption DEF IInv, TypeOK
    <3>2. cancel' \in BOOLEAN /\ quiet' \in BOOLEAN /\ executed' \in BOOLEAN
      BY <2>1 DEF IInv, TypeOK
    <3> QED
      BY <2>1, <3>1, <3>2 DEF IInv, TypeOK, Servers
  <2>3. CredsInv' /\ RetryInv'
    BY <2>1 DEF IInv, CredsInv, CredsOK, RetryInv
  <2>4. NonceInv'
    BY <2>1 DEF IInv, NonceInv, Stored, NoncesOf, Known
  <2> QED
    BY <2>2, <2>3, <2>4 DEF IInv
<1>2. CASE ~(tries + 1 < MaxTries)
  <2>1. Return("fail", tree) /\ quiet' \in BOOLEAN
    BY <1>2 DEF Retry
  <2>2. tree \in Accounts /\ NoncesOf(tree) \subseteq Stored
    BY DEF IInv, TypeOK, Stored
  <2> QED
    BY <2>1, <2>2, ReturnStep
<1> QED
  BY <1>1, <1>2

LEMMA LoseRequestStep == ASSUME IInv, LoseRequest PROVE IInv'
<1>1. /\ pc = "exchange" /\ Retry
      /\ UNCHANGED <<cancel, srv, sessions, delivered, losses>>
  BY DEF LoseRequest
<1>2. srv' \in Servers /\ delivered' \subseteq Nonces /\ losses' \in 0..3
      /\ Stored \subseteq delivered' \cup {Resync}
  BY <1>1 DEF IInv, TypeOK, Servers, NonceInv, Known
<1> QED
  BY <1>1, <1>2, RetryStep

LEMMA ExchangeStep ==
    ASSUME IInv, pc = "exchange", NEW r \in Replies, NEW lost \in BOOLEAN,
           Exchange(r, lost)
    PROVE  IInv'
<1>1. /\ srv' = r.server
      /\ delivered' = (delivered \cap SrvNoncesInUse)
                         \cup ({req.chal.nonce} \ {NoNonce})
      /\ UNCHANGED <<cancel, sessions>>
  BY DEF Exchange
<1>2. ReplyOK(r)
  BY RepliesOK DEF IInv
<1>3. delivered' \subseteq Nonces
  BY <1>1 DEF IInv, TypeOK, Requests, Challenges, Nonces0
<1>4. Stored \subseteq delivered' \cup {Resync}
  BY <1>1 DEF IInv, NonceInv, Known, Stored, NoncesOf, SrvNoncesInUse
<1>5. CASE lost
  <2>1. Retry /\ losses' = IF losses < 3 THEN losses + 1 ELSE losses
    BY <1>5 DEF Exchange
  <2>2. losses' \in 0..3
    BY <2>1 DEF IInv, TypeOK
  <2> QED
    BY <1>1, <1>2, <1>3, <1>4, <2>1, <2>2, RetryStep DEF ReplyOK
<1>6. CASE ~lost
  <2>1. /\ answer' = r.reply /\ pc' = "loop"
        /\ UNCHANGED <<creds, sess, req, tries, tree, disk, refusals,
                       losses, quiet, executed, result>>
    BY <1>6 DEF Exchange
  <2>2. TypeOK'
    <3>1. srv' \in [own : Nonces, given : Nonces, type : Types, known : BOOLEAN]
          /\ answer' \in Answers
      BY <1>1, <1>2, <2>1 DEF ReplyOK, Servers
    <3> QED
      BY <1>1, <1>3, <2>1, <3>1 DEF IInv, TypeOK
  <2>3. CredsInv'
    BY <1>2, <2>1 DEF IInv, CredsInv, CredsOK, ReplyOK
  <2>4. RetryInv'
    BY <2>1 DEF IInv, RetryInv
  <2>5. NonceInv'
    <3>1. Stored' = Stored
      BY <2>1 DEF Stored, NoncesOf
    <3>2. sess.generated => creds.srvNonce \in delivered' \cup {NoNonce}
      BY <1>1 DEF IInv, NonceInv
    <3> QED
      BY <1>4, <2>1, <3>1, <3>2 DEF NonceInv, Known
  <2> QED
    BY <2>2, <2>3, <2>4, <2>5 DEF IInv
<1> QED
  BY <1>5, <1>6

LEMMA ReceiveMessageStep ==
    ASSUME IInv, ReceiveMessage
    PROVE  /\ IInv'
           /\ sess'.cliRetry = sess.cliRetry
           /\ refusals < Many
           /\ refusals' = IF "server" \in sess'.auth THEN 0 ELSE refusals + 1
<1> DEFINE m == [sess EXCEPT !.more = FALSE]
           r == RecvPackage(creds, m)
           a == CheckAuthorization(r[1], r[2])
           ok == "server" \in a[2].auth
           k == IF ok THEN 0 ELSE a[2].srvRetry
           w == IF ok THEN 0 ELSE IF refusals <= Many THEN refusals + 1 ELSE refusals
<1>1. /\ pc = "loop" /\ pc' = "status" /\ executed' = FALSE
      /\ creds' = a[1]
      /\ sess' = IF ok THEN [a[2] EXCEPT !.srvRetry = 0] ELSE a[2]
      /\ refusals' = w
      /\ UNCHANGED <<req, answer, tries, tree, disk, cancel, srv, sessions,
                     delivered, losses, quiet, result>>
  BY DEF ReceiveMessage
<1>2. /\ m \in Sessions /\ m.auth = sess.auth /\ m.srvRetry = sess.srvRetry
      /\ m.cliRetry = sess.cliRetry /\ m.generated = sess.generated
  BY DEF IInv, TypeOK, Sessions
<1>3. /\ sess.srvRetry \in 0..MAX_AUTH_RETRY /\ sess.cliRetry \in 0..MAX_AUTH_RETRY
      /\ sess.srvRetry <= refusals /\ refusals <= sess.srvRetry + 1
      /\ "server" \in sess.auth => refusals = 0
      /\ refusals \in 0..Many
  BY <1>1 DEF IInv, TypeOK, RetryInv, Sessions
<1> HIDE DEF m
<1>4. /\ From(creds, r[1]) /\ r[2] \in Sessions
      /\ r[2].cliRetry = m.cliRetry /\ r[2].generated = m.generated
      /\ \/ "server" \in r[2].auth /\ r[2].srvRetry = 0
            /\ (answer.hmac = NoNonce => "server" \in m.auth)
         \/ "server" \notin r[2].auth /\ r[2].srvRetry = m.srvRetry + 1
  BY <1>2, <1>3, RecvPackageTyped DEF IInv
<1> HIDE DEF r
<1>5. /\ From(creds, a[1]) /\ a[2] \in Sessions
      /\ a[2].cliRetry = m.cliRetry /\ a[2].generated = m.generated
      /\ a[2].srvRetry = r[2].srvRetry
      /\ answer.cred.type = CHAL_NONE /\ "server" \in r[2].auth =>
             "server" \in a[2].auth
  BY <1>4, CheckAuthorizationTyped DEF IInv
<1> HIDE DEF a, ok
<1>6. /\ sess' \in Sessions /\ sess'.auth = a[2].auth /\ sess'.srvRetry = k
      /\ sess'.cliRetry = sess.cliRetry /\ sess'.generated = sess.generated
  <2>1. CASE ok
    BY <1>1, <1>2, <1>5, <2>1 DEF Sessions
  <2>2. CASE ~ok
    BY <1>1, <1>2, <1>5, <2>2
  <2> QED
    BY <2>1, <2>2
<1>7. /\ refusals < Many
       /\ w = IF ok THEN 0 ELSE refusals + 1
  BY <1>3
<1>8. k \in Nat /\ w \in 0..Many /\ k <= w /\ w <= k + 1 /\ (ok => w = 0)
  <2>1. CASE ok
    BY <2>1
  <2>2. CASE ~ok /\ a[2].srvRetry = m.srvRetry + 1
    BY <1>2, <1>3, <2>2
  <2>3. CASE ~ok /\ "server" \in r[2].auth /\ r[2].srvRetry = 0
            /\ (answer.hmac = NoNonce => "server" \in m.auth)
    <3>1. answer.cred.type # CHAL_NONE
      BY <1>5, <2>3 DEF ok
    <3>2. answer.hmac = NoNonce
      BY <3>1 DEF IInv, CredsInv
    <3> QED
      BY <1>2, <1>3, <1>5, <2>3, <3>2
  <2> QED
    BY <1>4, <1>5, <2>1, <2>2, <2>3
<1> HIDE DEF k, w
<1>9. TypeOK'
  <2>1. creds' \in Credentials
    BY <1>1, <1>5 DEF From, CredsOK
  <2>2. executed' \in BOOLEAN
    BY <1>1
  <2> QED
    BY <1>1, <1>6, <1>8, <2>1, <2>2 DEF IInv, TypeOK
<1>10. CredsInv'
  BY <1>1, <1>5 DEF IInv, CredsInv, From, CredsOK
<1>11. RetryInv'
  BY <1>1, <1>3, <1>6, <1>8 DEF RetryInv, ok
<1>12. NonceInv'
  <2>1. creds'.srvNonce \in {creds.srvNonce} \cup NoncesOf(tree)
    BY <1>1, <1>5 DEF From
  <2>2. NoncesOf(tree) \subseteq Known
    BY DEF IInv, NonceInv, Stored
  <2>3. Stored' = Stored /\ Known' = Known
    BY <1>1 DEF Stored, NoncesOf, Known
  <2> QED
    BY <1>1, <1>6, <2>1, <2>2, <2>3 DEF IInv, NonceInv
<1>13. refusals' = IF "server" \in sess'.auth THEN 0 ELSE refusals + 1
  BY <1>1, <1>6, <1>7 DEF ok
<1> QED
  BY <1>6, <1>9, <1>10, <1>11, <1>12, <1>7, <1>13 DEF IInv

\* The tree with a nonce for the server, or for the client.
LEMMA ServerNonceSaved ==
    ASSUME NEW c, CredsOK(c), NEW t \in Accounts
    PROVE  /\ SaveServerNonce(c, t) \in Accounts
           /\ NoncesOf(SaveServerNonce(c, t))
                  \subseteq NoncesOf(t) \cup ({c.srvNonce} \ {NoNonce})
<1>1. CASE c.srvURI = CHAL_NONE \/ c.srvNonce = NoNonce
  BY <1>1 DEF SaveServerNonce
<1>2. CASE ~(c.srvURI = CHAL_NONE \/ c.srvNonce = NoNonce)
  <2> DEFINE u == [t EXCEPT !.srv[c.srvURI] = c.srvNonce]
  <2>1. c.srvURI \in SrvProfiles /\ c.srvNonce \in Nonces /\ c.srvNonce # NoNonce
    BY <1>2 DEF CredsOK, Credentials, Nonces0
  <2>2. u \in Accounts
    BY <2>1 DEF Accounts
  <2>3. u.srv = [t.srv EXCEPT ![c.srvURI] = c.srvNonce]
    BY <2>1 DEF Accounts
  <2>4. \A p \in SrvProfiles : u.srv[p] \in {t.srv[p], c.srvNonce}
    BY <2>1, <2>3 DEF Accounts
  <2>5. SaveServerNonce(c, t) = u
    BY <1>2 DEF SaveServerNonce
  <2> HIDE DEF u
  <2> QED
    BY <2>1, <2>2, <2>4, <2>5 DEF NoncesOf
<1> QED
  BY <1>1, <1>2

LEMMA ClientNonceSaved ==
    ASSUME NEW c, CredsOK(c), NEW t \in Accounts, NEW n \in Nonces
    PROVE  /\ SaveClientNonce(c, t, n) \in Accounts
           /\ NoncesOf(SaveClientNonce(c, t, n)) = NoncesOf(t)
<1>1. CASE c.cliURI = CHAL_NONE
  BY <1>1 DEF SaveClientNonce
<1>2. CASE c.cliURI # CHAL_NONE
  <2> DEFINE u == [t EXCEPT !.cli[c.cliURI] = n]
  <2>1. c.cliURI \in CliProfiles
    BY <1>2 DEF CredsOK, Credentials
  <2>2. u \in Accounts
    BY <2>1 DEF Accounts
  <2>4. u.srv = t.srv
    BY <2>1 DEF Accounts
  <2>3. SaveClientNonce(c, t, n) = u
    BY <1>2 DEF SaveClientNonce
  <2> HIDE DEF u
  <2> QED
    BY <2>2, <2>3, <2>4 DEF NoncesOf
<1> QED
  BY <1>1, <1>2

LEMMA HandleStatusStep ==
    ASSUME IInv, NEW n \in Nonces, HandleStatus(n)
    PROVE  /\ IInv'
           /\ "server" \in sess'.auth <=> "server" \in sess.auth
           /\ sess'.cliRetry \in {0, sess.cliRetry + 1, MAX_AUTH_RETRY + 1}
           /\ sess'.srvRetry = sess.srvRetry
           /\ creds'.srvType = creds.srvType
           /\ req'.chal = IF "server" \in sess.auth /\ creds.srvType < CHAL_MD5
                         THEN NoChallenge
                         ELSE IF creds.srvType >= CHAL_MD5
                         THEN [type |-> creds.srvType, nonce |-> creds'.srvNonce]
                         ELSE Credential(CHAL_BASIC, NoNonce)
<1> DEFINE
      ok == answer.status = "ok"
      chal == answer.chal
      t0 == IF sess.generated THEN SaveServerNonce(creds, tree) ELSE tree
      t1 == IF ok /\ creds.updated THEN [t0 EXCEPT !.pref = creds.cliType] ELSE t0
      c1 == IF ok THEN [creds EXCEPT !.updated = FALSE] ELSE creds
      c2 == IF chal.type = CHAL_NONE THEN c1
            ELSE SetPrefClientAuth(c1, t1, chal.type)
      given == chal.type # CHAL_NONE /\ chal.nonce # NoNonce
      t2 == IF given THEN SaveClientNonce(c2, t1, chal.nonce) ELSE t1
      c3 == IF given THEN [c2 EXCEPT !.cliNonce = chal.nonce] ELSE c2
      c4 == SetPrefClientAuth(c3, t2, chal.type)
      auth == IF ok THEN sess.auth \cup {"client"} ELSE sess.auth \ {"client"}
      trusted == "server" \in sess.auth
      new == ~trusted /\ c4.srvType > CHAL_BASIC
      c5 == IF new THEN [c4 EXCEPT !.srvNonce = n] ELSE c4
      more == sess.more \/ (chal.type # CHAL_NONE /\ ~ok)
      retry == IF chal.type # CHAL_NONE /\ ~HasProfile(chal.type)
                     /\ c1.cliType # chal.type
               THEN MAX_AUTH_RETRY + 1
               ELSE IF ok THEN 0 ELSE sess.cliRetry + 1
      cred == HeaderCred(c4, chal.type)
      asked == IF trusted /\ c5.srvType < CHAL_MD5 THEN NoChallenge
               ELSE IF c5.srvType >= CHAL_MD5
               THEN [type |-> c5.srvType, nonce |-> c5.srvNonce]
               ELSE Credential(CHAL_BASIC, NoNonce)
      left == [NoAnswer EXCEPT !.commands = answer.commands]
<1>1. /\ pc = "status" /\ pc' = "commands" /\ n \in Fresh(SrvNoncesInUse)
      /\ creds' = c5 /\ tree' = t2
      /\ sess' = [sess EXCEPT !.auth = auth, !.generated = new, !.more = more,
                              !.cliRetry = retry]
      /\ req' = [hmac |-> NoNonce, cred |-> cred, chal |-> asked]
      /\ delivered' = IF new THEN delivered \ {n} ELSE delivered
      /\ answer' = left
      /\ UNCHANGED <<tries, disk, cancel, srv, sessions, refusals,
                     losses, quiet, executed, result>>
  BY Zenon DEF HandleStatus
<1>2. /\ CredsOK(creds) /\ creds.cliType >= 0 /\ tree \in Accounts
      /\ chal \in Challenges /\ sess \in Sessions
  BY <1>1 DEF IInv, TypeOK, CredsInv, Answers
<1>3. chal.type \in 0..3 /\ (given => chal.nonce \in Nonces)
  BY <1>2 DEF Challenges, Nonces0
<1>4. t0 \in Accounts /\ NoncesOf(t0) \subseteq Known
  <2>1. CASE ~sess.generated
    BY SMTT(30), <1>2, <2>1 DEF IInv, NonceInv, Stored
  <2>2. CASE sess.generated
    <3>1. creds.srvNonce \in Known \cup {NoNonce}
      BY <1>1, <2>2 DEF IInv, NonceInv
    <3>2. t0 \in Accounts
          /\ NoncesOf(t0) \subseteq NoncesOf(tree) \cup ({creds.srvNonce} \ {NoNonce})
      BY <1>2, <2>2, ServerNonceSaved
    <3>3. NoncesOf(tree) \subseteq Known
      BY DEF IInv, NonceInv, Stored
    <3> QED
      BY SMTT(30), <3>1, <3>2, <3>3
  <2> QED
    BY <2>1, <2>2
<1>5. NoncesOf(t0) \subseteq SrvNoncesInUse
  <2>1. NoncesOf(t0) \subseteq NoncesOf(tree) \cup {creds.srvNonce}
    BY <1>2, ServerNonceSaved
  <2> HIDE DEF t0
  <2> QED
    BY <2>1 DEF NoncesOf, SrvNoncesInUse
<1> HIDE DEF t0
<1>6. t1 \in Accounts /\ NoncesOf(t1) = NoncesOf(t0)
  <2>1. creds.cliType \in Types \cup {CHAL_NONE}
    BY <1>2 DEF CredsOK, Credentials
  <2>2. CASE ok /\ creds.updated
    <3>1. t1 \in Accounts
      BY <1>4, <2>1, <2>2 DEF Accounts
    <3>2. t1.srv = t0.srv
      BY <1>4, <2>1, <2>2 DEF Accounts
    <3> QED
      BY <3>1, <3>2 DEF NoncesOf
  <2>3. CASE ~(ok /\ creds.updated)
    BY <1>4, <2>3
  <2> QED
    BY <2>2, <2>3
<1> HIDE DEF t1
<1>7. CredsOK(c1) /\ c1.cliType >= 0 /\ c1.srvNonce = creds.srvNonce
      /\ c1.srvType = creds.srvType
  BY <1>2 DEF CredsOK, Credentials
<1> HIDE DEF c1
<1>8. CredsOK(c2) /\ c2.cliType >= 0 /\ c2.srvNonce = creds.srvNonce
      /\ c2.srvType = creds.srvType
  <2>1. chal.type \in 0..3
    BY <1>3
  <2>2. CASE chal.type = CHAL_NONE
    BY <1>7, <2>2
  <2>3. CASE chal.type # CHAL_NONE
    <3>1. c2 = SetPrefClientAuth(c1, t1, chal.type)
      BY <2>3
    <3> HIDE DEF chal, c2
    <3>2. CredsOK(c2) /\ c2.cliType >= 0 /\ c2.srvNonce = c1.srvNonce
          /\ c2.srvType = c1.srvType
      BY <1>6, <1>7, <2>1, <3>1, ClientAuth
    <3> QED
      BY <1>7, <3>2
  <2> QED
    BY <2>2, <2>3
<1> HIDE DEF c2
<1>9. t2 \in Accounts /\ NoncesOf(t2) = NoncesOf(t0)
  BY <1>3, <1>6, <1>8, ClientNonceSaved
<1> HIDE DEF t2
<1>10. CredsOK(c3) /\ c3.cliType >= 0 /\ c3.srvNonce = creds.srvNonce
       /\ c3.srvType = creds.srvType
  BY <1>3, <1>8 DEF CredsOK, Credentials, Nonces0
<1> HIDE DEF c3
<1>11. CredsOK(c4) /\ c4.cliType >= 0 /\ c4.srvNonce = creds.srvNonce
       /\ c4.srvType = creds.srvType
  <2> HIDE DEF chal, c4
  <2>1. c4 = SetPrefClientAuth(c3, t2, chal.type)
    BY DEF c4
  <2>2. CredsOK(c4) /\ c4.cliType >= 0 /\ c4.srvNonce = c3.srvNonce
        /\ c4.srvType = c3.srvType
    BY <1>3, <1>9, <1>10, <2>1, ClientAuth
  <2> QED
    BY <1>10, <2>2
<1> HIDE DEF c4
<1>12. /\ CredsOK(c5) /\ c5.cliType >= 0 /\ c5.srvType = c4.srvType
       /\ new => c5.srvNonce = n
  BY <1>11 DEF CredsOK, Credentials, Nonces0
<1>24. asked = IF "server" \in sess.auth /\ creds.srvType < CHAL_MD5
               THEN NoChallenge
               ELSE IF creds.srvType >= CHAL_MD5
               THEN [type |-> creds.srvType, nonce |-> c5.srvNonce]
               ELSE Credential(CHAL_BASIC, NoNonce)
  <2>1. c5.srvType = creds.srvType
    BY <1>11, <1>12
  <2> HIDE DEF c5
  <2> QED
    BY <2>1
<1>13. cred \in Challenges
  BY <1>3, <1>11 DEF CredsOK, Credentials, HeaderCred, NoChallenge, Challenges, Nonces0
<1>14. /\ asked \in Challenges
       /\ asked.type >= CHAL_MD5 => asked.nonce \in Nonces
       /\ new => asked.nonce = c5.srvNonce
  <2>1. c5.srvType \in -1..3 /\ c5.srvNonce \in Nonces0
        /\ (c5.srvType > CHAL_NONE => c5.srvNonce \in Nonces)
    BY <1>12 DEF CredsOK, Credentials
  <2>2. new => ~trusted /\ c5.srvType >= CHAL_MD5
    BY <1>12, <2>1
  <2> HIDE DEF c5, new, trusted
  <2>3. CASE trusted /\ c5.srvType < CHAL_MD5
    BY <2>2, <2>3, NoMessage DEF NoChallenge
  <2>4. CASE c5.srvType >= CHAL_MD5
    BY <2>1, <2>4 DEF Challenges
  <2>5. CASE ~trusted /\ ~(c5.srvType >= CHAL_MD5)
    BY <2>1, <2>2, <2>5 DEF Credential, Challenges, Nonces0
  <2> QED
    BY <2>1, <2>3, <2>4, <2>5
<1>15. /\ auth \in SUBSET {"client", "server"} /\ new \in BOOLEAN /\ more \in BOOLEAN
       /\ ("server" \in auth <=> "server" \in sess.auth)
  BY <1>2 DEF Sessions
<1>16. /\ retry \in 0..MAX_AUTH_RETRY + 1
       /\ retry \in {0, sess.cliRetry + 1, MAX_AUTH_RETRY + 1}
  BY <1>1, <1>2 DEF IInv, RetryInv, Sessions
<1>17. left \in Answers /\ left.hmac = NoNonce
  BY NoMessage DEF IInv, TypeOK, Answers
<1> HIDE DEF c5, auth, new, more, retry, cred, asked, left
<1>18. /\ sess' \in Sessions /\ sess'.auth = auth /\ sess'.generated = new
       /\ sess'.srvRetry = sess.srvRetry /\ sess'.cliRetry = retry
  BY <1>1, <1>2, <1>15, <1>16 DEF Sessions
<1>19. req' \in Requests /\ req'.chal = asked
  BY <1>1, <1>13, <1>14 DEF Requests, Nonces0
<1>20. TypeOK'
  <2>1. creds' \in Credentials
    BY <1>1, <1>12 DEF CredsOK
  <2>2. delivered' \subseteq Nonces
    BY <1>1 DEF IInv, TypeOK
  <2> QED
    BY <1>1, <1>9, <1>17, <1>18, <1>19, <2>1, <2>2 DEF IInv, TypeOK
<1>21. CredsInv'
  BY <1>1, <1>12, <1>14, <1>17, <1>19 DEF CredsInv, CredsOK
<1>22. RetryInv'
  BY <1>1, <1>15, <1>18 DEF IInv, RetryInv
<1>23. NonceInv'
  <2>1. Stored' = NoncesOf(t2) \cup NoncesOf(disk)
    BY <1>1 DEF Stored, NoncesOf
  <2>2. Stored' \subseteq Known
    BY <1>4, <1>9, <2>1 DEF IInv, NonceInv, Stored
  <2>3. Stored' \subseteq SrvNoncesInUse
    BY <1>5, <1>9, <2>1 DEF NoncesOf, SrvNoncesInUse
  <2>4. n \notin SrvNoncesInUse
    BY <1>1, FreshNonces
  <2>5. Stored' \subseteq Known'
    BY <1>1, <2>2, <2>3, <2>4 DEF Known
  <2> QED
    BY <1>1, <1>14, <1>18, <1>19, <2>5 DEF NonceInv
<1>25. creds'.srvType = creds.srvType /\ creds'.srvNonce = c5.srvNonce
  BY <1>1, <1>11, <1>12
<1> QED
  BY SMTT(30), <1>15, <1>16, <1>18, <1>19, <1>20, <1>21, <1>22, <1>23,
     <1>24, <1>25 DEF IInv

LEMMA HandleCommandsStep ==
    ASSUME IInv, NEW abort \in BOOLEAN, NEW save \in BOOLEAN,
           HandleCommands(abort, save)
    PROVE  IInv'
<1> DEFINE more == sess.more \/ answer.commands
<1>1. /\ pc = "commands" /\ pc' = "check"
      /\ sess' = [sess EXCEPT !.more = more, !.aborted = abort]
      /\ executed' = (answer.commands /\ "server" \in sess.auth)
      /\ disk' = IF save THEN tree ELSE disk
      /\ answer' = NoAnswer
      /\ UNCHANGED <<creds, req, tries, tree, cancel, srv, sessions,
                     delivered, refusals, losses, quiet, result>>
  BY DEF HandleCommands
<1>2. more \in BOOLEAN
  OBVIOUS
<1> HIDE DEF more
<1>3. /\ sess' \in Sessions /\ sess'.auth = sess.auth
      /\ sess'.generated = sess.generated /\ sess'.srvRetry = sess.srvRetry
      /\ sess'.cliRetry = sess.cliRetry
  BY <1>1, <1>2 DEF IInv, TypeOK, Sessions
<1>4. TypeOK'
  <2>1. executed' \in BOOLEAN
    BY <1>1
  <2>2. disk' \in Accounts
    BY <1>1 DEF IInv, TypeOK
  <2> QED
    BY <1>1, <1>3, <2>1, <2>2, NoMessage DEF IInv, TypeOK
<1>5. CredsInv'
  BY <1>1, NoMessage DEF IInv, CredsInv, CredsOK
<1>6. RetryInv'
  BY <1>1, <1>3 DEF IInv, RetryInv
<1>7. NonceInv'
  <2>1. Stored' \subseteq Stored
    BY <1>1 DEF Stored, NoncesOf
  <2> QED
    BY <1>1, <1>3, <2>1 DEF IInv, NonceInv, Known
<1> QED
  BY <1>4, <1>5, <1>6, <1>7 DEF IInv

LEMMA ContinueStep == ASSUME IInv, Continue PROVE IInv'
<1>1. /\ pc = "check" /\ pc' = "send" /\ ~TooManyRetries
      /\ UNCHANGED <<creds, sess, req, answer, tries, tree, disk, cancel, srv,
                     sessions, delivered, refusals, losses, quiet, executed, result>>
  BY DEF Continue
<1>2. sess.srvRetry <= MAX_AUTH_RETRY /\ sess.cliRetry <= MAX_AUTH_RETRY
  BY <1>1 DEF TooManyRetries, IInv, TypeOK, Sessions
<1>3. TypeOK'
  BY <1>1 DEF IInv, TypeOK
<1>4. CredsInv' /\ RetryInv'
  BY <1>1, <1>2 DEF IInv, CredsInv, CredsOK, RetryInv
<1>5. NonceInv'
  BY <1>1 DEF IInv, NonceInv, Stored, NoncesOf, Known
<1> QED
  BY <1>3, <1>4, <1>5 DEF IInv

LEMMA CancelStep == ASSUME IInv, Cancel PROVE IInv'
<1>1. /\ cancel' = TRUE /\ quiet' = FALSE
      /\ UNCHANGED <<pc, creds, sess, req, answer, tries, tree, disk, srv,
                     sessions, delivered, refusals, losses, executed, result>>
  BY DEF Cancel
<1>2. TypeOK'
  <2>1. cancel' \in BOOLEAN /\ quiet' \in BOOLEAN
    BY <1>1
  <2> QED
    BY <1>1, <2>1 DEF IInv, TypeOK
<1>3. CredsInv' /\ RetryInv'
  BY <1>1 DEF IInv, CredsInv, CredsOK, RetryInv
<1>4. NonceInv'
  BY <1>1 DEF IInv, NonceInv, Stored, NoncesOf, Known
<1> QED
  BY <1>2, <1>3, <1>4 DEF IInv

LEMMA ReturnsStep ==
    ASSUME IInv, HttpFails \/ LeaveCancelled \/ GiveUp \/ EndSession
    PROVE  IInv'
<1>1. CASE HttpFails
  BY <1>1, ReturnTree DEF HttpFails
<1>2. quiet \in BOOLEAN
  BY DEF IInv, TypeOK
<1>3. CASE LeaveCancelled
  BY <1>2, <1>3, ReturnTree DEF LeaveCancelled
<1>4. CASE GiveUp
  BY <1>2, <1>4, ReturnTree DEF GiveUp
<1>5. CASE EndSession
  BY <1>2, <1>5, ReturnTree DEF EndSession
<1> QED
  BY <1>1, <1>3, <1>4, <1>5

LEMMA ParseFailsStep == ASSUME IInv, ParseFails PROVE IInv'
<1>1. PICK t \in {tree, disk} : Return("fail", t)
  BY DEF ParseFails
<1>2. t \in Accounts /\ NoncesOf(t) \subseteq Stored
  BY DEF IInv, TypeOK, Stored
<1>3. srv' \in Servers /\ delivered' \subseteq Nonces /\ losses' \in 0..3
      /\ Stored \subseteq delivered' \cup {Resync}
  BY DEF ParseFails, IInv, TypeOK, Servers, NonceInv, Known
<1>4. quiet' \in BOOLEAN /\ UNCHANGED <<cancel, sessions>>
  BY DEF ParseFails
<1> QED
  BY <1>1, <1>2, <1>3, <1>4, ReturnStep

LEMMA CrashStep == ASSUME IInv, Crash PROVE IInv'
<1>1. /\ pc' = "idle" /\ result' = IF pc = "idle" THEN result ELSE "none"
      /\ tree' = disk /\ quiet' = FALSE
      /\ creds' = NewCreds /\ sess' = NewSession
      /\ req' = NoRequest /\ answer' = NoAnswer /\ tries' = 0
      /\ refusals' = 0 /\ executed' = FALSE
      /\ UNCHANGED <<disk, cancel, srv, sessions, delivered, losses>>
  BY DEF Crash
<1>2. TypeOK'
  <2>1. tries' \in 0..MaxTries - 1
    BY <1>1, BoundAssumption
  <2>2. creds' \in Credentials
    BY <1>1, NewCredsOK DEF CredsOK
  <2>3. sess' \in Sessions /\ req' \in Requests /\ answer' \in Answers
    BY <1>1, NewSessionTyped, NoMessage
  <2>4. quiet' \in BOOLEAN /\ executed' \in BOOLEAN
    BY <1>1
  <2>5. refusals' \in 0..Many
    BY <1>1
  <2>6. result' \in {"none", "success", "fail", "auth_fail"}
    <3>1. result \in {"none", "success", "fail", "auth_fail"}
      BY DEF IInv, TypeOK
    <3>2. result' = result \/ result' = "none"
      BY <1>1
    <3> QED
      BY <3>1, <3>2
  <2> QED
    BY <1>1, <2>1, <2>2, <2>3, <2>4, <2>5, <2>6 DEF IInv, TypeOK
<1>3. CredsInv'
  BY <1>1, NewCredsOK, NoMessage DEF CredsInv
<1>4. RetryInv'
  BY <1>1, NewSessionTyped DEF RetryInv
<1>5. NonceInv'
  <2>1. Stored' \subseteq Stored
    BY <1>1 DEF Stored, NoncesOf
  <2> QED
    BY <1>1, <2>1, NewSessionTyped DEF IInv, NonceInv, Known
<1> QED
  BY <1>2, <1>3, <1>4, <1>5 DEF IInv

LEMMA StutterStep == ASSUME IInv, UNCHANGED vars PROVE IInv'
<1>1. UNCHANGED <<pc, creds, sess, req, answer, tries, tree, disk, cancel, srv,
                  sessions, delivered, refusals, losses, quiet, executed, result>>
  BY DEF vars
<1>2. TypeOK'
  BY <1>1 DEF IInv, TypeOK
<1>3. CredsInv' /\ RetryInv'
  BY <1>1 DEF IInv, CredsInv, CredsOK, RetryInv
<1>4. NonceInv'
  BY <1>1 DEF IInv, NonceInv, Stored, NoncesOf, Known
<1> QED
  BY <1>2, <1>3, <1>4 DEF IInv

LEMMA NextStep == IInv /\ [Next]_vars => IInv'
<1> SUFFICES ASSUME IInv, [Next]_vars PROVE IInv'
  OBVIOUS
<1>1. CASE Step
  <2>1. CASE SendPackage
    BY <2>1, SendPackageStep
  <2>2. CASE LoseRequest
    BY <2>2, LoseRequestStep
  <2>3. CASE HttpFails \/ LeaveCancelled \/ GiveUp \/ EndSession
    BY <2>3, ReturnsStep
  <2>4. ASSUME pc = "exchange", NEW r \in Replies, NEW lost \in BOOLEAN,
               Exchange(r, lost)
        PROVE  IInv'
    BY <2>4, ExchangeStep
  <2>5. CASE ReceiveMessage
    BY <2>5, ReceiveMessageStep
  <2>6. ASSUME NEW n \in Nonces, HandleStatus(n) PROVE IInv'
    BY <2>6, HandleStatusStep
  <2>7. ASSUME NEW abort \in BOOLEAN, NEW save \in BOOLEAN,
               HandleCommands(abort, save)
        PROVE  IInv'
    BY <2>7, HandleCommandsStep
  <2>8. CASE ParseFails
    BY <2>8, ParseFailsStep
  <2>9. CASE Continue
    BY <2>9, ContinueStep
  <2> QED
    BY <1>1, <2>1, <2>2, <2>3, <2>4, <2>5, <2>6, <2>7, <2>8, <2>9 DEF Step
<1>2. CASE StartSession
  BY <1>2, StartSessionStep
<1>3. ASSUME NEW n \in Nonces, NEW lost \in BOOLEAN, Notify(n, lost) PROVE IInv'
  BY <1>3, NotifyStep
<1>4. CASE Cancel
  BY <1>4, CancelStep
<1>5. CASE Crash
  BY <1>5, CrashStep
<1>6. CASE UNCHANGED vars
  BY <1>6, StutterStep
<1> QED
  BY <1>1, <1>2, <1>3, <1>4, <1>5, <1>6 DEF Next

LEMMA Invariance == Spec => []IInv
BY InitStep, NextStep, PTL DEF Spec

----------------------------------------------------------------------------
(* The theorems.                                                           *)

\* Every variable of a session keeps its type: the retry counts stop one above
\* MAX_AUTH_RETRY, which ends the session (dmServerSession.cc:305-327).
THEOREM SessionTypes == Spec => []TypeOK
BY Invariance, PTL DEF IInv

\* A nonce for the server is in the tree, or on the disk, only when the server
\* has been sent it: HandleStatusCommand keeps it in memory until the next
\* answer is there (dm_ua_handlecommand.cc:2513-2525, 2695-2700).
THEOREM StoredNoncesDelivered == Spec => []StoredNonceDelivered
<1>1. IInv => StoredNonceDelivered
  BY DEF IInv, NonceInv, Stored, NoncesOf, Known, StoredNonceDelivered
<1> QED
  BY <1>1, Invariance, PTL

----------------------------------------------------------------------------
(* Both sides of an honest exchange recover.  Of the server, FirstInv is    *)
(* about a session without an answer and LaterInv about the others; of the  *)
(* client, ClientInv says that a refusal is followed by the right request   *)
(* unless an answer is lost.                                                *)

\* The accounts of an honest server have profiles of its types.
Suited == Honest /\ SrvAuth \in SrvProfiles /\ Demand \in CliProfiles

\* The answer proves the server with this type and nonce.
Proves(type, n) ==
    IF type = CHAL_HMAC THEN answer.hmac = n /\ answer.cred.type = CHAL_NONE
    ELSE answer.hmac = NoNonce /\ answer.cred = Credential(type, n)

\* The server's side.  No answer was received in this session.
First == creds.srvType = CHAL_UNDEFINED

FirstInv ==
    First =>
        /\ pc \in {"send", "exchange", "loop"}
        /\ srv.type = SrvAuth
        /\ "server" \notin sess.auth /\ sess.srvRetry = 0
        /\ req.chal = NoChallenge
        /\ pc = "loop" => \E own \in Nonces : Proves(SrvAuth, own)

\* The client has asked for what it expects.
Asked == IF creds.srvType >= CHAL_MD5
         THEN [type |-> creds.srvType, nonce |-> creds.srvNonce]
         ELSE NoChallenge

LaterInv ==
    ~First =>
        /\ creds.srvType >= CHAL_BASIC
        /\ creds.srvType = CHAL_BASIC =>
               srv.type = CHAL_BASIC /\ "server" \in sess.auth
        /\ sess.srvRetry <= 1
        /\ pc \in {"commands", "check", "send", "exchange"} => req.chal = Asked
        /\ pc = "loop" => Proves(creds.srvType, creds.srvNonce)

\* The client's side.
Ready == /\ creds.cliType = Demand /\ creds.cliNonce = srv.given
         /\ req.cred = HeaderCred(creds, Demand)

Right == /\ SentType(req) >= Demand
         /\ SentType(req) = CHAL_BASIC \/ SentNonce(req) = srv.given

ClientInv ==
    /\ sess.cliRetry <= 1 + losses
    /\ pc \in {"commands", "check", "send"} => Ready \/ sess.cliRetry <= losses
    /\ pc = "exchange" => Right \/ sess.cliRetry <= losses
    /\ pc \in {"loop", "status"} =>
           \/ answer.status = "ok"
           \/ /\ sess.cliRetry <= losses
              /\ answer.chal = [type |-> Demand, nonce |-> srv.given]
    /\ pc \in {"loop", "status"} => answer.chal.type \in {CHAL_NONE, Demand}

RecoverInv == pc # "idle" => FirstInv /\ LaterInv /\ ClientInv

\* A type of one of the server's profiles finds that profile.
LEMMA ExactProfile ==
    ASSUME NEW c, CredsOK(c), NEW t \in Accounts, NEW type \in SrvProfiles
    PROVE  SetPrefServerAuth(c, t, type).srvType = type
<1> DEFINE found == {p \in SrvProfiles : p >= type}
           p == CHOOSE q \in found : \A r \in found : q <= r
<1>1. type \in 1..3 /\ type \in found /\ \A r \in found : type <= r
  BY ProfileAssumption
<1>2. p \in found /\ \A r \in found : p <= r
  <2> HIDE DEF found
  <2> QED
    BY <1>1
<1>3. p = type
  <2>1. p \in 1..3 /\ p <= type /\ type <= p
    BY <1>1, <1>2, ProfileAssumption
  <2> HIDE DEF p
  <2> QED
    BY <1>1, <2>1
<1>4. CASE c.srvType = type
  BY <1>4 DEF SetPrefServerAuth
<1>5. CASE c.srvType # type
  <2>1. SetPrefServerAuth(c, t, type)
            = [c EXCEPT !.srvType = p, !.srvURI = p, !.srvNonce = t.srv[p]]
    BY <1>1, <1>5 DEF SetPrefServerAuth
  <2> HIDE DEF p
  <2> QED
    BY <1>3, <2>1 DEF CredsOK, Credentials
<1> QED
  BY <1>4, <1>5

\* What an honest server answers.
LEMMA HonestReply ==
    ASSUME TypeOK, CredsInv, Suited, NEW r \in Replies
    PROVE  /\ r.server.type = IF req.chal.type # CHAL_NONE
                               THEN req.chal.type ELSE srv.type
           /\ \E own \in Nonces :
                  /\ req.chal.type >= CHAL_MD5 => own = req.chal.nonce
                  /\ IF r.server.type = CHAL_HMAC
                     THEN r.reply.hmac = own /\ r.reply.cred.type = CHAL_NONE
                     ELSE /\ r.reply.hmac = NoNonce
                          /\ r.reply.cred = Credential(r.server.type, own)
           /\ \/ r.reply.status = "ok"
              \/ r.reply.chal = [type |-> Demand, nonce |-> r.server.given]
           /\ Right => r.reply.status = "ok"
           /\ r.reply.chal.type \in {CHAL_NONE, Demand}
<1> DEFINE own == IF req.chal.type >= CHAL_MD5 THEN req.chal.nonce ELSE srv.own
           type == IF req.chal.type # CHAL_NONE THEN req.chal.type ELSE srv.type
           known == Right \/ (srv.known /\ Demand # CHAL_HMAC)
<1>1. PICK next \in Fresh(CliNoncesInUse),
           chal \in IF known THEN {CHAL_NONE, Demand} ELSE {Demand},
           commands \in BOOLEAN :
          r = [server |-> [own |-> own, type |-> type, known |-> known,
                      given |-> IF chal # CHAL_NONE THEN next ELSE srv.given],
               reply |-> [hmac |-> IF type = CHAL_HMAC THEN own ELSE NoNonce,
                     cred |-> IF type = CHAL_HMAC THEN NoChallenge
                              ELSE Credential(type, own),
                     chal |-> IF chal = CHAL_NONE THEN NoChallenge
                              ELSE [type |-> chal, nonce |-> next],
                     status |-> IF known THEN "ok" ELSE "unauthorized",
                     commands |-> commands]]
  BY DEF Suited, Replies, HonestReplies, Right
<1>2. own \in Nonces
  BY DEF TypeOK, CredsInv, Requests, Challenges
<1>3. known \/ (chal = Demand /\ Demand # CHAL_NONE)
  BY <1>1, LevelAssumption
<1> HIDE DEF own, type, known
<1>4. r.server.type = type
  BY <1>1
<1>5. IF type = CHAL_HMAC
      THEN r.reply.hmac = own /\ r.reply.cred.type = CHAL_NONE
      ELSE r.reply.hmac = NoNonce /\ r.reply.cred = Credential(type, own)
  BY <1>1 DEF NoChallenge
<1>6. known => r.reply.status = "ok"
  BY <1>1
<1>7. ~known => r.reply.chal = [type |-> Demand, nonce |-> r.server.given]
  BY <1>1, <1>3
<1>8. /\ req.chal.type >= CHAL_MD5 => own = req.chal.nonce
      /\ type = IF req.chal.type # CHAL_NONE THEN req.chal.type ELSE srv.type
      /\ Right => known
  BY DEF own, type, known
<1>9. r.reply.chal.type \in {CHAL_NONE, Demand}
  BY <1>1 DEF NoChallenge
<1> QED
  BY <1>2, <1>4, <1>5, <1>6, <1>7, <1>8, <1>9

----------------------------------------------------------------------------
(* The client receives an answer.                                          *)

\* What RecvPackage and CheckAuthorization leave: the answer of a server that
\* the client has not heard in this session.
LEMMA FirstAnswer ==
    ASSUME TypeOK, CredsInv, Suited, First, NEW m \in Sessions,
           "server" \notin m.auth, m.srvRetry = 0,
           \E own \in Nonces : Proves(SrvAuth, own),
           NEW r, r = RecvPackage(creds, m),
           NEW a, a = CheckAuthorization(r[1], r[2])
    PROVE  /\ a[1].srvType >= CHAL_BASIC
           /\ a[1].srvType = CHAL_BASIC =>
                  SrvAuth = CHAL_BASIC /\ "server" \in a[2].auth
           /\ a[2].srvRetry <= 1
<1>1. /\ CredsOK(creds) /\ tree \in Accounts /\ SrvAuth \in SrvProfiles
      /\ SrvAuth \in Types /\ SecurityLevel \in -1..3
  BY LevelAssumption DEF TypeOK, CredsInv, Suited
<1>2. From(creds, r[1]) /\ r[2] \in Sessions
      /\ r[2].srvRetry <= 1
  BY <1>1, RecvPackageTyped
<1>3. PICK own \in Nonces : Proves(SrvAuth, own)
  OBVIOUS
<1>4. a[2].srvRetry <= 1
  BY <1>2, CheckAuthorizationTyped
<1>5. CASE SrvAuth = CHAL_HMAC
  <2>1. answer.hmac # NoNonce
    BY <1>3, <1>5, NonceAssumption DEF Proves
  <2>2. r[1].srvType = CHAL_HMAC
    <3>1. r[1] = SetPrefServerAuth(creds, tree, CHAL_HMAC)
      BY <2>1 DEF RecvPackage
    <3> QED
      BY <1>1, <1>5, <3>1, ExactProfile
  <2>3. a[1] = r[1]
    BY <2>2 DEF CheckAuthorization
  <2> QED
    BY <1>4, <2>2, <2>3
<1>6. CASE SrvAuth # CHAL_HMAC
  <2>1. /\ answer.hmac = NoNonce /\ answer.cred.type = SrvAuth
        /\ SrvAuth = CHAL_BASIC => answer.cred.nonce = NoNonce
    BY <1>1, <1>3, <1>6 DEF Proves, Credential
  <2>2. r[1] = creds
    BY <2>1 DEF RecvPackage
  <2> DEFINE c0 == IF creds.srvType <= CHAL_NONE
                   THEN SetPrefServerAuth(creds, tree, SecurityLevel)
                   ELSE creds
             m0 == IF c0.srvType = CHAL_NONE THEN Authorize(r[2], TRUE)
                   ELSE r[2]
             c1 == SetPrefServerAuth(c0, tree, SrvAuth)
             right == IF SrvAuth = CHAL_BASIC THEN NoNonce ELSE c1.srvNonce
             ok == answer.cred.nonce = right
             weak == \/ c0.srvType = CHAL_HMAC
                     \/ SrvAuth = CHAL_NONE
                     \/ SrvAuth < c0.srvType
  <2>3. CredsOK(c0) /\ c0.srvType \in -1..3
    <3>1. CredsOK(c0)
      BY <1>1, ServerAuth
    <3> HIDE DEF c0
    <3> QED
      BY <3>1 DEF CredsOK, Credentials
  <2>4. a = IF weak THEN <<c0, m0>> ELSE <<c1, Authorize(m0, ok)>>
    BY <2>1, <2>2 DEF CheckAuthorization
  <2> HIDE DEF c0
  <2>5. c1.srvType = SrvAuth
    BY <1>1, <2>3, ExactProfile
  <2>6. m0 \in Sessions
    BY <1>2, AuthorizeTyped
  <2> HIDE DEF m0, c1
  <2>7. CASE weak
    BY <1>1, <1>4, <2>3, <2>4, <2>7
  <2>8. CASE ~weak
    <3>1. a[1] = c1 /\ a[2] = Authorize(m0, ok)
      BY <2>4, <2>8
    <3>2. SrvAuth = CHAL_BASIC => ok
      BY <2>1
    <3>3. ok => "server" \in a[2].auth
      BY <2>6, <3>1, AuthorizeTyped
    <3> QED
      BY <1>1, <1>4, <2>5, <3>1, <3>2, <3>3
  <2> QED
    BY <2>7, <2>8
<1> QED
  BY <1>5, <1>6

\* CheckAuthorization of credentials whose type is known.
LEMMA CheckedType ==
    ASSUME NEW c, c.srvType \in 1..3, NEW m
    PROVE  CheckAuthorization(c, m) =
             IF \/ c.srvType = CHAL_HMAC
                \/ answer.cred.type = CHAL_NONE
                \/ answer.cred.type < c.srvType
             THEN <<c, m>>
             ELSE <<SetPrefServerAuth(c, tree, answer.cred.type),
                    Authorize(m, answer.cred.nonce =
                                 IF answer.cred.type = CHAL_BASIC THEN NoNonce
                                 ELSE SetPrefServerAuth(c, tree,
                                          answer.cred.type).srvNonce)>>
<1>1. ~(c.srvType <= CHAL_NONE) /\ c.srvType # CHAL_NONE
  OBVIOUS
<1> QED
  BY <1>1, Zenon DEF CheckAuthorization

\* An answer with what the client asked for is accepted.
LEMMA LaterAnswer ==
    ASSUME TypeOK, CredsInv, creds.srvType >= CHAL_BASIC, NEW m \in Sessions,
           Proves(creds.srvType, creds.srvNonce),
           NEW r, r = RecvPackage(creds, m),
           NEW a, a = CheckAuthorization(r[1], r[2]),
           m.srvRetry <= MAX_AUTH_RETRY
    PROVE  a[1] = creds /\ "server" \in a[2].auth
<1>1. creds.srvType \in 1..3 /\ creds.srvNonce \in Nonces
  BY DEF CredsInv, CredsOK, Credentials
<1>2. From(creds, r[1]) /\ r[2] \in Sessions
  BY RecvPackageTyped
<1>3. CASE creds.srvType = CHAL_HMAC
  <2>1. answer.hmac = creds.srvNonce /\ answer.hmac # NoNonce
        /\ answer.cred.type = CHAL_NONE
    BY <1>1, <1>3, NonceAssumption DEF Proves
  <2>2. SetPrefServerAuth(creds, tree, CHAL_HMAC) = creds
    BY <1>3 DEF SetPrefServerAuth
  <2>3. r[1] = creds
    BY <2>1, <2>2 DEF RecvPackage
  <2>4. "server" \in r[2].auth
    <3>1. r[2] = [Authorize(m, TRUE) EXCEPT !.missing = FALSE, !.srvRetry = 0]
      BY <2>1, <2>2 DEF RecvPackage
    <3>2. Authorize(m, TRUE) \in Sessions /\ "server" \in Authorize(m, TRUE).auth
      BY AuthorizeTyped
    <3> QED
      BY <3>1, <3>2 DEF Sessions
  <2>5. a = <<creds, r[2]>>
    BY <1>3, <2>3, CheckedType
  <2> QED
    BY <2>4, <2>5
<1>4. CASE creds.srvType # CHAL_HMAC
  <2>1. /\ answer.hmac = NoNonce /\ answer.cred.type = creds.srvType
        /\ answer.cred.nonce = IF creds.srvType = CHAL_BASIC THEN NoNonce
                                ELSE creds.srvNonce
    BY <1>1, <1>4 DEF Proves, Credential
  <2>2. r[1] = creds
    BY <2>1 DEF RecvPackage
  <2>3. SetPrefServerAuth(creds, tree, creds.srvType) = creds
    BY DEF SetPrefServerAuth
  <2>4. a = <<creds, Authorize(r[2], TRUE)>>
    <3>1. a = <<SetPrefServerAuth(creds, tree, creds.srvType),
                Authorize(r[2], answer.cred.nonce =
                              IF creds.srvType = CHAL_BASIC THEN NoNonce
                              ELSE SetPrefServerAuth(creds, tree,
                                                     creds.srvType).srvNonce)>>
      BY <1>1, <1>4, <2>1, <2>2, CheckedType
    <3>2. answer.cred.nonce = IF creds.srvType = CHAL_BASIC THEN NoNonce
                              ELSE SetPrefServerAuth(creds, tree,
                                                     creds.srvType).srvNonce
      BY <2>1, <2>3
    <3> QED
      BY <2>3, <3>1, <3>2, Zenon
  <2>5. a[1] = creds /\ a[2] = Authorize(r[2], TRUE)
    BY <2>4
  <2> QED
    BY <1>2, <2>5, AuthorizeTyped
<1> QED
  BY <1>3, <1>4

----------------------------------------------------------------------------
(* The steps.                                                              *)

\* Nothing is promised between sessions.
LEMMA EndRecovers == pc' = "idle" => RecoverInv'
BY DEF RecoverInv

\* A step that changes neither side.
LEMMA SameSides ==
    ASSUME RecoverInv,
           pc' \in {pc, "idle"} \/ (pc = "commands" /\ pc' = "check")
               \/ (pc = "check" /\ pc' = "send"),
           UNCHANGED <<creds, req, srv, losses>>,
           pc' = pc => answer' = answer,
           sess'.auth = sess.auth, sess'.srvRetry = sess.srvRetry,
           sess'.cliRetry = sess.cliRetry
    PROVE  RecoverInv'
<1> SUFFICES ASSUME pc' # "idle" PROVE (FirstInv /\ LaterInv /\ ClientInv)'
  BY DEF RecoverInv
<1>1. FirstInv /\ LaterInv /\ ClientInv /\ First' = First
  BY DEF RecoverInv, First
<1>2. FirstInv'
  BY <1>1 DEF FirstInv, First, Proves
<1>3. LaterInv'
  BY <1>1 DEF LaterInv, First, Asked, Proves
<1>4. ClientInv'
  BY <1>1 DEF ClientInv, Ready, Right, SentType, SentNonce
<1> QED
  BY <1>2, <1>3, <1>4

\* LoadInitialValues leaves the server's type undefined.
LEMMA StartRecovers ==
    ASSUME IInv, Suited, StartSession PROVE RecoverInv'
<1>1. /\ creds' = LoadInitialValues(tree) /\ pc' = "send"
      /\ req' = [NoRequest EXCEPT
                     !.cred = HeaderCred(creds', creds'.cliType)]
      /\ sess' = NewSession /\ losses' = 0
      /\ srv' = [srv EXCEPT !.known = FALSE, !.type = SrvAuth]
  BY DEF StartSession
<1>2. tree \in Accounts /\ srv \in Servers
  BY DEF IInv, TypeOK, Servers
<1>3. First'
  BY <1>1, <1>2, InitialValues DEF First
<1>4. srv'.type = SrvAuth /\ req'.chal = NoChallenge
  BY <1>1, <1>2 DEF Servers, NoRequest
<1>5. sess'.auth = {} /\ sess'.srvRetry = 0 /\ sess'.cliRetry = 0
  BY <1>1, NewSessionTyped
<1> QED
  BY <1>1, <1>3, <1>4, <1>5 DEF RecoverInv, FirstInv, LaterInv, ClientInv

\* The credentials that are ready are the right ones.
LEMMA SendRecovers ==
    ASSUME IInv, Suited, RecoverInv, SendPackage PROVE RecoverInv'
<1>1. /\ pc = "send" /\ pc' = "exchange"
      /\ UNCHANGED <<creds, sess, srv, losses>>
  BY DEF SendPackage
<1>2. /\ req'.chal = req.chal /\ req'.cred = req.cred
      /\ req'.hmac = IF creds.cliType = CHAL_HMAC THEN creds.cliNonce
                     ELSE NoNonce
  <2>1. req \in Requests
    BY DEF IInv, TypeOK
  <2>2. req' = [req EXCEPT !.hmac = IF creds.cliType = CHAL_HMAC
                                   THEN creds.cliNonce ELSE NoNonce]
    BY DEF SendPackage
  <2> QED
    BY <2>1, <2>2 DEF Requests
<1>3. FirstInv /\ LaterInv /\ ClientInv /\ First' = First /\ Asked' = Asked
  BY <1>1 DEF RecoverInv, First, Asked
<1>4. FirstInv'
  BY <1>1, <1>2, <1>3 DEF FirstInv
<1>5. LaterInv'
  BY <1>1, <1>2, <1>3 DEF LaterInv
<1>6. Ready => Right'
  <2> SUFFICES ASSUME Ready PROVE Right'
    OBVIOUS
  <2>1. srv.given \in Nonces /\ NoNonce \notin Nonces /\ Demand \in 1..3
    BY LevelAssumption, NonceAssumption DEF IInv, TypeOK
  <2>2. CASE Demand = CHAL_HMAC
    BY <1>1, <1>2, <2>1, <2>2 DEF Ready, Right, SentType, SentNonce
  <2>3. CASE Demand # CHAL_HMAC
    <3>1. req'.hmac = NoNonce /\ req'.cred = HeaderCred(creds, Demand)
      BY <1>2, <2>3 DEF Ready
    <3>2. /\ HeaderCred(creds, Demand).type = Demand
          /\ Demand = CHAL_MD5 => HeaderCred(creds, Demand).nonce = srv.given
      BY <2>1, <2>3 DEF HeaderCred, Ready
    <3> QED
      BY <1>1, <2>1, <2>3, <3>1, <3>2 DEF Right, SentType, SentNonce
  <2> QED
    BY <2>2, <2>3
<1>7. ClientInv'
  BY <1>1, <1>3, <1>6 DEF ClientInv
<1> QED
  BY <1>4, <1>5, <1>7 DEF RecoverInv

\* A request that is lost is sent again, with the same credentials.
LEMMA LoseRecovers ==
    ASSUME RecoverInv, LoseRequest PROVE RecoverInv'
<1>1. CASE tries + 1 < MaxTries
  <2>1. UNCHANGED <<pc, creds, sess, req, answer, srv, losses>>
    BY <1>1 DEF LoseRequest, Retry
  <2> QED
    BY <2>1, SameSides
<1>2. CASE ~(tries + 1 < MaxTries)
  BY <1>2, EndRecovers DEF LoseRequest, Retry, Return
<1> QED
  BY <1>1, <1>2

\* An answer is lost only after the server has changed the client's nonce, if
\* it has: the client may be refused once more.  An answer that arrives proves
\* the server, and refuses the client only if it has lost one before.
LEMMA ExchangeRecovers ==
    ASSUME IInv, Suited, RecoverInv, pc = "exchange", NEW r \in Replies,
           NEW lost \in BOOLEAN, Exchange(r, lost)
    PROVE  RecoverInv'
<1>1. /\ r.server.type = IF req.chal.type # CHAL_NONE
                         THEN req.chal.type ELSE srv.type
      /\ \/ r.reply.status = "ok"
         \/ r.reply.chal = [type |-> Demand, nonce |-> r.server.given]
      /\ Right => r.reply.status = "ok"
      /\ r.reply.chal.type \in {CHAL_NONE, Demand}
  BY HonestReply DEF IInv
<1>2. PICK own \in Nonces :
          /\ req.chal.type >= CHAL_MD5 => own = req.chal.nonce
          /\ IF r.server.type = CHAL_HMAC
             THEN r.reply.hmac = own /\ r.reply.cred.type = CHAL_NONE
             ELSE /\ r.reply.hmac = NoNonce
                  /\ r.reply.cred = Credential(r.server.type, own)
  BY HonestReply DEF IInv
<1>3. FirstInv /\ LaterInv /\ ClientInv /\ srv' = r.server
  BY DEF RecoverInv, Exchange
<1>4. /\ First => r.server.type = SrvAuth
      /\ ~First /\ creds.srvType = CHAL_BASIC => r.server.type = CHAL_BASIC
      /\ ~First /\ creds.srvType # CHAL_BASIC =>
             /\ r.server.type = creds.srvType
             /\ own = creds.srvNonce
  <2>1. creds.srvType \in -1..3
    BY DEF IInv, TypeOK, Credentials
  <2>2. CASE First
    BY <1>1, <1>3, <2>2 DEF FirstInv, NoChallenge
  <2>3. CASE ~First /\ creds.srvType = CHAL_BASIC
    BY <1>1, <1>3, <2>3 DEF LaterInv, Asked, NoChallenge
  <2>4. CASE ~First /\ creds.srvType # CHAL_BASIC
    <3>1. req.chal = [type |-> creds.srvType, nonce |-> creds.srvNonce]
          /\ creds.srvType >= CHAL_MD5
      BY <1>3, <2>1, <2>4 DEF LaterInv, Asked
    <3> QED
      BY <1>1, <1>2, <2>4, <3>1
  <2> QED
    BY <2>2, <2>3, <2>4
<1>5. sess.cliRetry \in 0..2 /\ losses \in 0..3
  BY DEF IInv, TypeOK, RetryInv, Sessions
<1>6. CASE lost
  <2>1. Retry /\ losses' = IF losses < 3 THEN losses + 1 ELSE losses
    BY <1>6 DEF Exchange
  <2>2. CASE ~(tries + 1 < MaxTries)
    BY <2>1, <2>2, EndRecovers DEF Retry, Return
  <2>3. CASE tries + 1 < MaxTries
    <3>1. UNCHANGED <<pc, creds, sess, req, answer>>
      BY <2>1, <2>3 DEF Retry
    <3>2. FirstInv'
      BY <1>3, <1>4, <3>1 DEF FirstInv, First
    <3>3. LaterInv'
      BY <1>3, <1>4, <3>1 DEF LaterInv, First, Asked
    <3>4. sess.cliRetry <= losses'
      BY <1>3, <1>5, <2>1 DEF ClientInv
    <3>5. ClientInv'
      BY <1>5, <2>1, <3>1, <3>4 DEF ClientInv
    <3> QED
      BY <3>2, <3>3, <3>5 DEF RecoverInv
  <2> QED
    BY <2>2, <2>3
<1>7. CASE ~lost
  <2>1. /\ answer' = r.reply /\ pc' = "loop"
        /\ UNCHANGED <<creds, sess, req, losses>>
    BY <1>7 DEF Exchange
  <2>2. FirstInv'
    <3>1. First => Proves(SrvAuth, own)'
      BY <1>2, <1>4, <2>1 DEF Proves
    <3> QED
      BY <1>3, <1>4, <2>1, <3>1 DEF FirstInv, First
  <2>3. LaterInv'
    <3>1. ~First => Proves(creds.srvType, creds.srvNonce)'
      BY <1>2, <1>4, <2>1 DEF Proves, Credential
    <3> QED
      BY <1>3, <1>4, <2>1, <3>1 DEF LaterInv, First
  <2>4. ClientInv'
    BY <1>1, <1>3, <2>1 DEF ClientInv
  <2> QED
    BY <2>2, <2>3, <2>4 DEF RecoverInv
<1> QED
  BY <1>6, <1>7

\* The first answer is refused at most once, a later one never.
LEMMA ReceiveRecovers ==
    ASSUME IInv, Suited, RecoverInv, ReceiveMessage PROVE RecoverInv'
<1> DEFINE m == [sess EXCEPT !.more = FALSE]
           r == RecvPackage(creds, m)
           a == CheckAuthorization(r[1], r[2])
           ok == "server" \in a[2].auth
<1>1. /\ pc = "loop" /\ pc' = "status" /\ creds' = a[1]
      /\ sess' = IF ok THEN [a[2] EXCEPT !.srvRetry = 0] ELSE a[2]
      /\ UNCHANGED <<req, answer, srv, losses>>
  BY DEF ReceiveMessage
<1>2. /\ m \in Sessions /\ m.auth = sess.auth /\ m.srvRetry = sess.srvRetry
      /\ m.srvRetry <= MAX_AUTH_RETRY
  BY <1>1 DEF IInv, TypeOK, RetryInv, Sessions
<1>3. TypeOK /\ CredsInv /\ FirstInv /\ LaterInv /\ ClientInv
  BY <1>1 DEF IInv, RecoverInv
<1> HIDE DEF m
<1>4. From(creds, r[1]) /\ r[2] \in Sessions
  BY <1>2, <1>3, RecvPackageTyped
<1>5. a[2] \in Sessions
  BY <1>3, <1>4, CheckAuthorizationTyped
<1>6. sess'.cliRetry = sess.cliRetry
  BY ReceiveMessageStep
<1>7. /\ a[1].srvType >= CHAL_BASIC
      /\ a[1].srvType = CHAL_BASIC => srv.type = CHAL_BASIC /\ ok
      /\ ok \/ a[2].srvRetry <= 1
  <2>1. CASE First
    <3>1. /\ srv.type = SrvAuth /\ "server" \notin m.auth /\ m.srvRetry = 0
          /\ \E own \in Nonces : Proves(SrvAuth, own)
      BY <1>1, <1>2, <1>3, <2>1 DEF FirstInv
    <3> QED
      BY <1>2, <1>3, <2>1, <3>1, FirstAnswer
  <2>2. CASE ~First
    <3>1. /\ creds.srvType >= CHAL_BASIC
          /\ creds.srvType = CHAL_BASIC => srv.type = CHAL_BASIC
          /\ Proves(creds.srvType, creds.srvNonce)
      BY <1>1, <1>3, <2>2 DEF LaterInv
    <3>2. a[1] = creds /\ ok
      BY <1>2, <1>3, <3>1, LaterAnswer
    <3> QED
      BY <3>1, <3>2
  <2> QED
    BY <2>1, <2>2
<1> HIDE DEF a, r
<1>8. /\ "server" \in sess'.auth <=> ok
      /\ sess'.srvRetry <= 1
  BY <1>1, <1>5, <1>7 DEF Sessions
<1>9. ~First' /\ FirstInv' /\ LaterInv'
  BY <1>1, <1>7, <1>8 DEF First, FirstInv, LaterInv
<1>10. ClientInv'
  BY <1>1, <1>3, <1>6 DEF ClientInv
<1> QED
  BY <1>9, <1>10 DEF RecoverInv

\* Selecting a profile makes its type the client's.
LEMMA OwnProfile ==
    ASSUME NEW c, CredsOK(c), NEW t, NEW p, NEW d,
           d = UseClientProfile(c, t, p, p)
    PROVE  d.cliType = p
<1>1. c \in Credentials
  BY DEF CredsOK
<1> QED
  BY <1>1 DEF UseClientProfile, Credentials

\* A refusal comes with the challenge that the next request answers.
LEMMA RefusedReady ==
    ASSUME IInv, Suited, NEW n \in Nonces, HandleStatus(n),
           answer.status # "ok",
           answer.chal = [type |-> Demand, nonce |-> srv.given]
    PROVE  Ready' /\ sess'.cliRetry = sess.cliRetry + 1
<1> DEFINE
      t0 == IF sess.generated THEN SaveServerNonce(creds, tree) ELSE tree
      c2 == SetPrefClientAuth(creds, t0, Demand)
      t2 == SaveClientNonce(c2, t0, srv.given)
      c3 == [c2 EXCEPT !.cliNonce = srv.given]
      c4 == SetPrefClientAuth(c3, t2, Demand)
      new == "server" \notin sess.auth /\ c4.srvType > CHAL_BASIC
      c5 == IF new THEN [c4 EXCEPT !.srvNonce = n] ELSE c4
<1>1. /\ Demand \in CliProfiles /\ Demand \in 1..3 /\ srv.given \in Nonces
      /\ srv.given # NoNonce
  BY LevelAssumption, NonceAssumption DEF IInv, TypeOK, Suited
<1>2. /\ CredsOK(creds) /\ creds.cliType >= 0 /\ tree \in Accounts
      /\ sess \in Sessions /\ srv' = srv
  BY DEF IInv, TypeOK, CredsInv, HandleStatus
<1>3. creds' = c5 /\ req'.cred = HeaderCred(c4, Demand)
  BY <1>1 DEF HandleStatus
<1>4. sess'.cliRetry = sess.cliRetry + 1
  <2>1. HasProfile(Demand)
    BY <1>1 DEF HasProfile
  <2> QED
    BY <1>2, <2>1 DEF HandleStatus, Sessions
<1>5. t0 \in Accounts
  BY <1>2, ServerNonceSaved
<1> HIDE DEF t0
<1>6. CredsOK(c2) /\ c2.cliType = Demand
  <2>1. \E d : d = SetPrefClientAuth(creds, t0, Demand) /\ d = c2
    OBVIOUS
  <2>2. PICK d : d = SetPrefClientAuth(creds, t0, Demand) /\ d = c2
    BY <2>1
  <2> HIDE DEF c2
  <2>3. Demand \in 0..3
    BY <1>1
  <2>4. CredsOK(d)
    BY <1>2, <1>5, <2>2, <2>3, ClientAuth
  <2>5. CASE creds.cliType = Demand
    BY <1>1, <2>2, <2>4, <2>5 DEF SetPrefClientAuth
  <2>6. CASE creds.cliType # Demand
    <3>1. d = UseClientProfile(creds, t0, Demand, Demand)
      BY <1>1, <2>2, <2>6 DEF SetPrefClientAuth
    <3>2. d.cliType = Demand
      BY <1>2, <3>1, OwnProfile
    <3> QED
      BY <2>2, <2>4, <3>2
  <2> QED
    BY <2>5, <2>6
<1> HIDE DEF c2, t2
<1>7. c3 \in Credentials /\ c3.cliType = Demand /\ c3.cliNonce = srv.given
  BY <1>1, <1>6 DEF CredsOK, Credentials, Nonces0
<1> HIDE DEF c3
<1>8. c4 = c3
  BY <1>7 DEF SetPrefClientAuth
<1> HIDE DEF c4
<1>9. c5.cliType = Demand /\ c5.cliNonce = srv.given
  BY <1>7, <1>8 DEF Credentials
<1>10. HeaderCred(c5, Demand) = HeaderCred(c4, Demand)
  BY SMTT(30), <1>7, <1>8, <1>9 DEF HeaderCred
<1> HIDE DEF c5
<1> QED
  BY <1>2, <1>3, <1>4, <1>9, <1>10 DEF Ready

\* The next request asks for what LaterAnswer needs.
LEMMA StatusRecovers ==
    ASSUME IInv, Suited, RecoverInv, NEW n \in Nonces, HandleStatus(n)
    PROVE  RecoverInv'
<1>1. /\ pc = "status" /\ pc' = "commands"
      /\ UNCHANGED <<srv, losses>>
  BY DEF HandleStatus
<1>2. /\ ~First /\ LaterInv /\ ClientInv
  BY <1>1 DEF RecoverInv, FirstInv
<1>3. /\ "server" \in sess'.auth <=> "server" \in sess.auth
      /\ sess'.srvRetry = sess.srvRetry
      /\ creds'.srvType = creds.srvType
      /\ req'.chal = IF "server" \in sess.auth /\ creds.srvType < CHAL_MD5
                    THEN NoChallenge
                    ELSE IF creds.srvType >= CHAL_MD5
                    THEN [type |-> creds.srvType, nonce |-> creds'.srvNonce]
                    ELSE Credential(CHAL_BASIC, NoNonce)
  BY HandleStatusStep
<1>4. creds.srvType \in -1..3
  BY DEF IInv, TypeOK, Credentials
<1>5. req'.chal = Asked'
  BY <1>2, <1>3, <1>4 DEF LaterInv, Asked
<1>6. ~First' /\ FirstInv' /\ LaterInv'
  BY <1>1, <1>2, <1>3, <1>5 DEF First, FirstInv, LaterInv
<1>7. losses \in 0..3 /\ sess.cliRetry \in 0..3
  BY SMTT(30) DEF IInv, TypeOK, Sessions
<1>8. CASE answer.status = "ok"
  <2>1. HasProfile(answer.chal.type)
    BY SMTT(30), <1>1, <1>2 DEF ClientInv, HasProfile, Suited
  <2>2. sess'.cliRetry = 0
    <3>1. sess \in Sessions
      BY DEF IInv, TypeOK
    <3> QED
      BY <1>8, <2>1, <3>1 DEF HandleStatus, Sessions
  <2> QED
    BY SMTT(30), <1>1, <1>6, <1>7, <2>2 DEF RecoverInv, ClientInv
<1>9. CASE answer.status # "ok"
  <2>1. /\ sess.cliRetry <= losses
        /\ answer.chal = [type |-> Demand, nonce |-> srv.given]
    BY <1>1, <1>2, <1>9 DEF ClientInv
  <2>2. Ready' /\ sess'.cliRetry = sess.cliRetry + 1
    BY <1>9, <2>1, RefusedReady
  <2> QED
    BY <1>1, <1>6, <1>7, <2>1, <2>2 DEF RecoverInv, ClientInv
<1> QED
  BY SMTT(30), <1>8, <1>9

\* Every action keeps RecoverInv.
LEMMA RecoverStep ==
    Suited /\ IInv /\ RecoverInv /\ [Next]_vars => RecoverInv'
<1> SUFFICES ASSUME Suited, IInv, RecoverInv, [Next]_vars PROVE RecoverInv'
  OBVIOUS
<1>1. CASE Step
  <2>1. CASE SendPackage
    BY <2>1, SendRecovers
  <2>2. CASE LoseRequest
    BY <2>2, LoseRecovers
  <2>3. CASE HttpFails \/ LeaveCancelled \/ ParseFails \/ GiveUp \/ EndSession
    BY <2>3, EndRecovers
    DEF HttpFails, LeaveCancelled, ParseFails, GiveUp, EndSession, Return
  <2>4. ASSUME pc = "exchange", NEW r \in Replies, NEW lost \in BOOLEAN,
               Exchange(r, lost)
        PROVE  RecoverInv'
    BY <2>4, ExchangeRecovers
  <2>5. CASE ReceiveMessage
    BY <2>5, ReceiveRecovers
  <2>6. ASSUME NEW n \in Nonces, HandleStatus(n) PROVE RecoverInv'
    BY <2>6, StatusRecovers
  <2>7. ASSUME NEW abort \in BOOLEAN, NEW save \in BOOLEAN,
               HandleCommands(abort, save)
        PROVE  RecoverInv'
    <3>1. /\ pc = "commands" /\ pc' = "check"
          /\ UNCHANGED <<creds, req, srv, losses>>
          /\ sess' = [sess EXCEPT !.more = @ \/ answer.commands,
                                  !.aborted = abort]
      BY <2>7 DEF HandleCommands
    <3>2. sess'.auth = sess.auth /\ sess'.srvRetry = sess.srvRetry
          /\ sess'.cliRetry = sess.cliRetry
      BY <3>1 DEF IInv, TypeOK, Sessions
    <3> QED
      BY <3>1, <3>2, SameSides
  <2>8. CASE Continue
    <3>1. /\ pc = "check" /\ pc' = "send"
          /\ UNCHANGED <<creds, sess, req, srv, losses>>
      BY <2>8 DEF Continue
    <3> QED
      BY <3>1, SameSides
  <2> QED
    BY <1>1, <2>1, <2>2, <2>3, <2>4, <2>5, <2>6, <2>7, <2>8 DEF Step
<1>2. CASE StartSession
  BY <1>2, StartRecovers
<1>3. ASSUME NEW n \in Nonces, NEW lost \in BOOLEAN, Notify(n, lost)
      PROVE  RecoverInv'
  BY <1>3, EndRecovers DEF Notify
<1>4. CASE Cancel
  <2>1. UNCHANGED <<pc, creds, sess, req, answer, srv, losses>>
    BY <1>4 DEF Cancel
  <2> QED
    BY <2>1, SameSides
<1>5. CASE Crash
  BY <1>5, EndRecovers DEF Crash
<1>6. CASE UNCHANGED vars
  <2>1. UNCHANGED <<pc, creds, sess, req, answer, srv, losses>>
    BY <1>6 DEF vars
  <2> QED
    BY <2>1, SameSides
<1> QED
  BY <1>1, <1>2, <1>3, <1>4, <1>5, <1>6 DEF Next

\* An honest server with profiles of its types in the account, and the client:
\* the server is refused at most once in a session, and the client in a row
\* only once more than answers were lost, whatever the nonces that each has
\* stored, and for all types and profiles (dmServerSession.cc:305).
THEOREM SidesRecover ==
    ASSUME SrvAuth \in SrvProfiles, Demand \in CliProfiles
    PROVE  Spec => []HonestSidesRecover
<1>1. CASE Honest
  <2>1. Suited
    BY <1>1 DEF Suited
  <2>2. Init => RecoverInv
    BY DEF Init, RecoverInv
  <2>3. IInv /\ RecoverInv /\ [Next]_vars => RecoverInv'
    BY <2>1, RecoverStep
  <2>4. IInv /\ RecoverInv => HonestSidesRecover
    <3> SUFFICES ASSUME IInv, RecoverInv
                 PROVE  sess.srvRetry <= 1 /\ sess.cliRetry <= 1 + losses
      BY DEF HonestSidesRecover
    <3>1. losses \in 0..3
      BY DEF IInv, TypeOK
    <3>2. CASE pc = "idle"
      BY <3>1, <3>2, NewSessionTyped DEF IInv, RetryInv
    <3>3. CASE pc # "idle"
      BY <3>3 DEF RecoverInv, FirstInv, LaterInv, ClientInv
    <3> QED
      BY <3>2, <3>3
  <2> QED
    BY <2>2, <2>3, <2>4, Invariance, PTL DEF Spec
<1>2. CASE ~Honest
  <2>1. HonestSidesRecover
    BY <1>2 DEF HonestSidesRecover
  <2> QED
    BY <2>1, PTL
<1> QED
  BY <1>1, <1>2

----------------------------------------------------------------------------
(* Both sides have the same nonces stored after a session in which each     *)
(* proved itself.  The accounts have one type for the client, which is what *)
(* the server demands and how it authenticates itself, and the client's own *)
(* level does not make it prefer a stronger profile of the server.          *)

OneType ==
    /\ Honest /\ SrvAuth \in SrvProfiles /\ SrvAuth \in {CHAL_MD5, CHAL_HMAC}
    /\ Demand = SrvAuth /\ CliProfiles = {SrvAuth}
    /\ SecurityLevel > SrvAuth => \A p \in SrvProfiles : p < SecurityLevel

Resynced(t) == t.srv[SrvAuth] = Resync

\* The credentials follow the only profile of the client in the account t.
InStep(c, t) ==
    /\ c.cliURI = SrvAuth /\ c.srvURI = SrvAuth
    /\ c.cliType \in {CHAL_NONE, SrvAuth}
    /\ ~Resynced(t) => c.cliNonce = t.cli[SrvAuth]

\* The stored nonce of the server is the one for the resynchronization only
\* when the server's is, and it remains so.
ResyncInv ==
    /\ Resynced(tree) => srv.own = Resync
    /\ Resynced(disk) => Resynced(tree)

\* The nonce in memory is stored, or it is a new one that is not stored yet.
OwnInv ==
    /\ First => ~sess.generated
    /\ ~First => /\ creds.srvType = SrvAuth
                 /\ IF sess.generated
                    THEN ~Resynced(tree) /\ creds.srvNonce # Resync
                    ELSE creds.srvNonce = tree.srv[SrvAuth]
    /\ pc = "loop" => Proves(SrvAuth, srv.own)
    /\ pc = "status" => ("server" \in sess.auth <=> creds.srvNonce = srv.own)
    /\ pc \in {"commands", "check"} =>
           ("server" \in sess.auth => tree.srv[SrvAuth] = srv.own)

\* A server that knows the client has given it the nonce in the tree, unless
\* an answer was lost or the nonces are being resynchronized.
Given == quiet /\ ~Resynced(tree) /\ srv.known => tree.cli[SrvAuth] = srv.given

GivenInv ==
    /\ pc \in {"commands", "check", "send", "exchange"} =>
           /\ req.cred.type >= CHAL_MD5 => req.cred.nonce = creds.cliNonce
           /\ req.hmac # NoNonce => req.hmac = creds.cliNonce
           /\ Given
    /\ pc \in {"commands", "check"} => ("client" \in sess.auth => srv.known)
    /\ pc \in {"loop", "status"} =>
           /\ answer.status = "ok" => srv.known
           /\ answer.chal.type \in {CHAL_NONE, SrvAuth}
           /\ IF answer.chal.type = CHAL_NONE THEN Given
              ELSE answer.chal.nonce = srv.given

AgreeInv ==
    /\ ResyncInv
    /\ pc # "idle" => /\ InStep(creds, tree) /\ (cancel => ~quiet)
                      /\ OwnInv /\ GivenInv

LEMMA OneTypeSuited ==
    ASSUME OneType
    PROVE  /\ Suited /\ SrvAuth \in CliProfiles /\ FirstCli = SrvAuth
           /\ SrvAuth \in 2..3 /\ SrvAuth # CHAL_NONE /\ SrvAuth \in Types
BY ProfileAssumption DEF OneType, Suited

\* What an honest server remembers of its answer.
LEMMA HonestMemory ==
    ASSUME TypeOK, CredsInv, OneType, NEW r \in Replies
    PROVE  /\ r.server.own = IF req.chal.type >= CHAL_MD5 THEN req.chal.nonce
                              ELSE srv.own
           /\ IF r.server.type = CHAL_HMAC
              THEN r.reply.hmac = r.server.own /\ r.reply.cred.type = CHAL_NONE
              ELSE /\ r.reply.hmac = NoNonce
                   /\ r.reply.cred = Credential(r.server.type, r.server.own)
           /\ r.reply.status = "ok" => r.server.known
           /\ r.server.known => Right \/ srv.known
           /\ r.reply.chal.type \in {CHAL_NONE, SrvAuth}
           /\ IF r.reply.chal.type = CHAL_NONE
              THEN r.server.known /\ r.server.given = srv.given
              ELSE r.reply.chal.nonce = r.server.given
<1> DEFINE own == IF req.chal.type >= CHAL_MD5 THEN req.chal.nonce ELSE srv.own
           type == IF req.chal.type # CHAL_NONE THEN req.chal.type ELSE srv.type
           known == Right \/ (srv.known /\ Demand # CHAL_HMAC)
<1>1. PICK next \in Fresh(CliNoncesInUse),
           chal \in IF known THEN {CHAL_NONE, Demand} ELSE {Demand},
           commands \in BOOLEAN :
          r = [server |-> [own |-> own, type |-> type, known |-> known,
                      given |-> IF chal # CHAL_NONE THEN next ELSE srv.given],
               reply |-> [hmac |-> IF type = CHAL_HMAC THEN own ELSE NoNonce,
                     cred |-> IF type = CHAL_HMAC THEN NoChallenge
                              ELSE Credential(type, own),
                     chal |-> IF chal = CHAL_NONE THEN NoChallenge
                              ELSE [type |-> chal, nonce |-> next],
                     status |-> IF known THEN "ok" ELSE "unauthorized",
                     commands |-> commands]]
  BY DEF OneType, Replies, HonestReplies, Right
<1>2. chal \in {CHAL_NONE, SrvAuth} /\ (chal = CHAL_NONE => known)
  BY <1>1, OneTypeSuited DEF OneType
<1>3. known => Right \/ srv.known
  OBVIOUS
<1>4. own = IF req.chal.type >= CHAL_MD5 THEN req.chal.nonce ELSE srv.own
  OBVIOUS
<1> HIDE DEF own, type, known
<1>5. r.server.own = own /\ r.server.type = type /\ r.server.known = known
  BY <1>1
<1>6. IF type = CHAL_HMAC
      THEN r.reply.hmac = own /\ r.reply.cred.type = CHAL_NONE
      ELSE r.reply.hmac = NoNonce /\ r.reply.cred = Credential(type, own)
  BY <1>1 DEF NoChallenge
<1>7. r.reply.status = "ok" => known
  BY <1>1
<1>8. CASE chal = CHAL_NONE
  <2>1. r.reply.chal.type = CHAL_NONE /\ r.server.given = srv.given
    BY <1>1, <1>8 DEF NoChallenge
  <2> QED
    BY <1>2, <1>3, <1>4, <1>5, <1>6, <1>7, <1>8, <2>1
<1>9. CASE chal # CHAL_NONE
  <2>1. r.reply.chal.type = chal /\ r.reply.chal.nonce = r.server.given
    BY <1>1, <1>9
  <2> QED
    BY <1>2, <1>3, <1>4, <1>5, <1>6, <1>7, <1>9, <2>1
<1> QED
  BY <1>8, <1>9

\* SetPrefServerAuth leaves the client's part, and finds the profile of an
\* exact type with the nonce in the tree.
SameClient(c, d) ==
    /\ d.cliURI = c.cliURI /\ d.cliType = c.cliType /\ d.cliNonce = c.cliNonce

LEMMA ServerAuthClient ==
    ASSUME NEW c, CredsOK(c), NEW t \in Accounts, NEW type \in -1..3,
           NEW d, d = SetPrefServerAuth(c, t, type)
    PROVE  SameClient(c, d)
<1> DEFINE found == {q \in SrvProfiles : q >= type}
           p == CHOOSE q \in found : \A r \in found : q <= r
<1>1. c \in Credentials
  BY DEF CredsOK
<1>2. d \in {c, [c EXCEPT !.srvType = CHAL_NONE], [c EXCEPT !.srvURI = CHAL_NONE],
             [c EXCEPT !.srvType = p, !.srvURI = p, !.srvNonce = t.srv[p]]}
  BY DEF SetPrefServerAuth
<1> HIDE DEF p
<1> QED
  BY <1>1, <1>2 DEF Credentials, SameClient

Exact(c, t, type) ==
    /\ c.srvType = type /\ c.srvURI = type /\ c.srvNonce = t.srv[type]

LEMMA ExactServerAuth ==
    ASSUME NEW c, CredsOK(c), NEW t \in Accounts, NEW type \in SrvProfiles,
           c.srvType # type \/ Exact(c, t, type),
           NEW d, d = SetPrefServerAuth(c, t, type)
    PROVE  Exact(d, t, type)
<1> DEFINE found == {q \in SrvProfiles : q >= type}
           p == CHOOSE q \in found : \A r \in found : q <= r
<1>1. type \in 1..3 /\ type \in found
  BY ProfileAssumption
<1>2. CASE c.srvType = type
  BY <1>2 DEF SetPrefServerAuth
<1>3. CASE c.srvType # type
  <2>1. d = [c EXCEPT !.srvType = p, !.srvURI = p, !.srvNonce = t.srv[p]]
    BY <1>1, <1>3 DEF SetPrefServerAuth
  <2> HIDE DEF p
  <2>2. d.srvType = p /\ d.srvURI = p /\ d.srvNonce = t.srv[p]
    BY <2>1 DEF CredsOK, Credentials
  <2>3. d.srvType = type
    BY ExactProfile
  <2> QED
    BY <2>2, <2>3 DEF Exact
<1> QED
  BY <1>2, <1>3

\* The client's own level leaves the server's type, or selects a profile that
\* is not stronger than the server's type.
LEMMA LevelServerAuth ==
    ASSUME OneType, NEW c, CredsOK(c), c.srvType = CHAL_UNDEFINED,
           NEW t \in Accounts, NEW d, d = SetPrefServerAuth(c, t, SecurityLevel)
    PROVE  /\ d.srvType \in -1..SrvAuth
           /\ d.srvType = SrvAuth => Exact(d, t, SrvAuth)
<1> DEFINE found == {q \in SrvProfiles : q >= SecurityLevel}
           p == CHOOSE q \in found : \A r \in found : q <= r
<1>1. /\ SrvAuth \in 2..3 /\ SrvAuth \in SrvProfiles /\ SrvProfiles \subseteq 1..3
      /\ SecurityLevel \in 0..3
  BY OneTypeSuited, ProfileAssumption, LevelAssumption DEF Suited
<1>2. CASE SecurityLevel = CHAL_NONE
  <2>1. d = [c EXCEPT !.srvType = CHAL_NONE]
    BY <1>2 DEF SetPrefServerAuth
  <2>2. d.srvType = CHAL_NONE
    BY <2>1 DEF CredsOK, Credentials
  <2> QED
    BY <1>1, <2>2
<1>3. CASE SecurityLevel # CHAL_NONE /\ found = {}
  <2>1. d = [c EXCEPT !.srvURI = CHAL_NONE]
    BY <1>1, <1>3 DEF SetPrefServerAuth
  <2>2. d.srvType = CHAL_UNDEFINED
    BY <2>1 DEF CredsOK, Credentials
  <2> QED
    BY <1>1, <2>2
<1>4. CASE SecurityLevel # CHAL_NONE /\ found # {}
  <2>1. d = [c EXCEPT !.srvType = p, !.srvURI = p, !.srvNonce = t.srv[p]]
    BY <1>1, <1>4 DEF SetPrefServerAuth
  <2>2. SecurityLevel <= SrvAuth
    <3>1. PICK q \in SrvProfiles : q >= SecurityLevel
      BY <1>4
    <3>2. ~(q < SecurityLevel) /\ q \in 1..3
      BY <1>1, <3>1
    <3>3. ~(SecurityLevel > SrvAuth)
      BY <3>2 DEF OneType
    <3> QED
      BY <1>1, <3>3
  <2>3. SrvAuth \in found /\ found \subseteq 1..3
    BY <1>1, <2>2
  <2> HIDE DEF found
  <2>4. \E q \in found : \A r \in found : q <= r
    <3>1. CASE 1 \in found
      BY <2>3, <3>1
    <3>2. CASE 1 \notin found /\ 2 \in found
      BY <2>3, <3>2
    <3>3. CASE found = {3}
      BY <3>3
    <3> QED
      BY <2>3, <3>1, <3>2, <3>3
  <2>5. p \in found /\ p <= SrvAuth
    BY <2>3, <2>4
  <2> HIDE DEF p
  <2>6. d.srvType = p /\ d.srvURI = p /\ d.srvNonce = t.srv[p]
    BY <2>1 DEF CredsOK, Credentials
  <2>7. p \in -1..SrvAuth
    BY <1>1, <2>3, <2>5
  <2> QED
    BY <2>6, <2>7 DEF Exact
<1> QED
  BY <1>2, <1>3, <1>4

\* SetPrefClientAuth keeps the credentials in step, and the server's part.
Follows(c, d, t) ==
    /\ CredsOK(d) /\ d.cliType >= 0 /\ InStep(d, t)
    /\ d.srvNonce = c.srvNonce /\ d.srvType = c.srvType

LEMMA ClientAuthInStep ==
    ASSUME OneType, NEW c, CredsOK(c), c.cliType >= 0, NEW t \in Accounts,
           InStep(c, t), NEW type \in {CHAL_NONE, SrvAuth},
           NEW d, d = SetPrefClientAuth(c, t, type)
    PROVE  Follows(c, d, t)
<1>1. /\ SrvAuth \in CliProfiles /\ FirstCli = SrvAuth /\ SrvAuth # CHAL_NONE
      /\ SrvAuth \in SrvProfiles /\ SrvAuth \in 0..3
  BY OneTypeSuited DEF Suited
<1>2. CASE c.cliType = type
  BY <1>2 DEF SetPrefClientAuth, Follows
<1>3. CASE c.cliType # type
  <2>1. d = UseClientProfile(c, t, SrvAuth, type)
    BY <1>1, <1>3 DEF SetPrefClientAuth
  <2>2. InStep(d, t)
    BY <1>1, <2>1 DEF UseClientProfile, CredsOK, Credentials, InStep, Resynced
  <2>3. type \in 0..3
    BY <1>1
  <2>4. CredsOK(d) /\ d.cliType = type /\ d.srvNonce = c.srvNonce
        /\ d.srvType = c.srvType
    BY SMTT(30), <1>1, <2>1, <2>3, ClientProfile
  <2> QED
    BY <2>2, <2>3, <2>4 DEF Follows
<1> QED
  BY <1>2, <1>3

LEMMA InitialInStep ==
    ASSUME OneType, NEW t \in Accounts, NEW d, d = LoadInitialValues(t)
    PROVE  InStep(d, t)
<1> DEFINE last == IF t.pref = CHAL_NONE THEN SecurityLevel ELSE t.pref
<1>1. /\ CliProfiles = {SrvAuth} /\ FirstCli = SrvAuth /\ SrvAuth # CHAL_NONE
      /\ SrvAuth \in SrvProfiles
  BY OneTypeSuited DEF OneType, Suited
<1>2. PICK type \in {CHAL_NONE, SrvAuth} :
          d = UseClientProfile(NewCreds, t, SrvAuth, type)
  <2>1. CASE last = CHAL_NONE
    BY <1>1, <2>1 DEF LoadInitialValues
  <2>2. CASE last # CHAL_NONE
    BY <1>1, <2>2 DEF LoadInitialValues
  <2> QED
    BY <2>1, <2>2
<1>3. NewCreds \in Credentials
  BY NewCredsOK DEF CredsOK
<1> HIDE DEF last
<1> QED
  BY <1>1, <1>2, <1>3 DEF UseClientProfile, Credentials, InStep, Resynced

\* The answer to a session's first request: the client compares its nonce with
\* the one in the tree.
LEMMA FirstAnswerExact ==
    ASSUME TypeOK, CredsInv, OneType, First, NEW m \in Sessions,
           "server" \notin m.auth, m.srvRetry = 0,
           NEW own \in Nonces, Proves(SrvAuth, own),
           NEW r, r = RecvPackage(creds, m),
           NEW a, a = CheckAuthorization(r[1], r[2])
    PROVE  /\ Exact(a[1], tree, SrvAuth) /\ SameClient(creds, a[1])
           /\ "server" \in a[2].auth <=> own = tree.srv[SrvAuth]
<1>1. /\ CredsOK(creds) /\ tree \in Accounts /\ SrvAuth \in SrvProfiles
      /\ SrvAuth \in 2..3 /\ SecurityLevel \in -1..3
  BY LevelAssumption, OneTypeSuited DEF TypeOK, CredsInv, Suited
<1>2. From(creds, r[1]) /\ r[2] \in Sessions
  BY RecvPackageTyped
<1>3. creds.srvType # SrvAuth /\ creds.srvType = CHAL_UNDEFINED
  BY <1>1 DEF First
<1>4. CASE SrvAuth = CHAL_HMAC
  <2> DEFINE c1 == SetPrefServerAuth(creds, tree, CHAL_HMAC)
             ok == answer.hmac = c1.srvNonce
             e == [Authorize(m, ok) EXCEPT !.missing = FALSE,
                                           !.srvRetry = IF ok THEN 0 ELSE @ + 1]
  <2>1. answer.hmac = own /\ own # NoNonce
    BY <1>4, NonceAssumption DEF Proves
  <2>2. Exact(c1, tree, SrvAuth) /\ SameClient(creds, c1)
    BY <1>1, <1>3, <1>4, ExactServerAuth, ServerAuthClient
  <2>3. r = <<c1, e>>
    BY <2>1 DEF RecvPackage
  <2> HIDE DEF c1
  <2>4. a = <<c1, e>>
    <3>1. c1.srvType = CHAL_HMAC
      BY <1>4, <2>2 DEF Exact
    <3> HIDE DEF e
    <3> QED
      BY <2>3, <3>1, CheckedType
  <2>5. "server" \in e.auth <=> ok
    <3>1. Authorize(m, ok) \in Sessions /\ ("server" \in Authorize(m, ok).auth <=> ok)
      BY AuthorizeTyped
    <3>2. e.auth = Authorize(m, ok).auth
      BY <3>1 DEF Sessions
    <3> QED
      BY <3>1, <3>2
  <2>6. ok <=> own = tree.srv[SrvAuth]
    BY <2>1, <2>2 DEF Exact
  <2> HIDE DEF e, ok
  <2>7. a[1] = c1 /\ a[2] = e
    BY <2>4
  <2> QED
    BY <2>2, <2>5, <2>6, <2>7
<1>5. CASE SrvAuth # CHAL_HMAC
  <2>1. /\ SrvAuth = CHAL_MD5 /\ answer.hmac = NoNonce
        /\ answer.cred.type = SrvAuth /\ answer.cred.nonce = own
    BY <1>1, <1>5 DEF Proves, Credential
  <2>2. r[1] = creds
    BY <2>1 DEF RecvPackage
  <2> DEFINE c0 == SetPrefServerAuth(creds, tree, SecurityLevel)
             m0 == IF c0.srvType = CHAL_NONE THEN Authorize(r[2], TRUE)
                   ELSE r[2]
             c1 == SetPrefServerAuth(c0, tree, SrvAuth)
             ok == own = c1.srvNonce
  <2>3. /\ CredsOK(c0) /\ SameClient(creds, c0)
        /\ c0.srvType \in -1..SrvAuth
        /\ c0.srvType = SrvAuth => Exact(c0, tree, SrvAuth)
    BY <1>1, <1>3, ServerAuth, ServerAuthClient, LevelServerAuth
  <2>4. a = <<c1, Authorize(m0, ok)>>
    <3>1. creds.srvType <= CHAL_NONE
      BY <1>3
    <3>2. ~(\/ c0.srvType = CHAL_HMAC \/ answer.cred.type = CHAL_NONE
            \/ answer.cred.type < c0.srvType)
      BY <1>1, <2>1, <2>3
    <3>3. answer.cred.type # CHAL_BASIC
      BY <2>1
    <3> HIDE DEF c0
    <3>4. a = IF \/ c0.srvType = CHAL_HMAC \/ answer.cred.type = CHAL_NONE
                 \/ answer.cred.type < c0.srvType
              THEN <<c0, m0>> ELSE <<c1, Authorize(m0, ok)>>
      BY <2>1, <2>2, <3>1, <3>3 DEF CheckAuthorization, c0
    <3> QED
      BY <3>2, <3>4
  <2> HIDE DEF c0
  <2>5. Exact(c1, tree, SrvAuth) /\ SameClient(c0, c1)
    <3>1. c0.srvType # SrvAuth \/ Exact(c0, tree, SrvAuth)
      BY <2>3
    <3>2. SrvAuth \in -1..3
      BY <1>1
    <3> QED
      BY <1>1, <2>3, <3>1, <3>2, ExactServerAuth, ServerAuthClient
  <2>6. m0 \in Sessions
    BY <1>2, AuthorizeTyped
  <2> HIDE DEF m0, c1
  <2>7. a[1] = c1 /\ a[2] = Authorize(m0, ok)
    BY <2>4
  <2>8. "server" \in a[2].auth <=> ok
    BY <2>6, <2>7, AuthorizeTyped
  <2>9. ok <=> own = tree.srv[SrvAuth]
    BY <2>5 DEF Exact
  <2> HIDE DEF ok
  <2> QED
    BY <2>3, <2>5, <2>7, <2>8, <2>9 DEF SameClient
<1> QED
  BY <1>4, <1>5

\* Between sessions only the resynchronization matters.
LEMMA EndAgrees == ResyncInv' /\ pc' = "idle" => AgreeInv'
BY DEF AgreeInv

LEMMA ReturnAgrees ==
    ASSUME AgreeInv, NEW r, NEW t \in {tree, disk}, Return(r, t),
           Resynced(tree) => srv'.own = Resync
    PROVE  AgreeInv'
<1>1. tree' = t /\ disk' = t /\ pc' = "idle"
  BY DEF Return
<1>2. ResyncInv'
  BY <1>1 DEF AgreeInv, ResyncInv, Resynced
<1> QED
  BY <1>1, <1>2, EndAgrees

LEMMA InitAgrees == OneType /\ Init => AgreeInv
<1> SUFFICES ASSUME OneType, Init PROVE ResyncInv
  BY DEF AgreeInv, Init
<1>1. FirstNonce # Resync
  BY NonceAssumption DEF FirstNonce
<1>2. SrvAuth \in SrvProfiles
  BY DEF OneType
<1>3. tree.srv[SrvAuth] = FirstNonce /\ disk = tree
  BY <1>2 DEF Init
<1> QED
  BY <1>1, <1>3 DEF ResyncInv, Resynced

LEMMA StartAgrees ==
    ASSUME IInv, OneType, AgreeInv, StartSession PROVE AgreeInv'
<1>1. /\ creds' = LoadInitialValues(tree) /\ pc' = "send"
      /\ req' = [NoRequest EXCEPT
                     !.cred = HeaderCred(creds', creds'.cliType)]
      /\ sess' = NewSession /\ cancel' = FALSE
      /\ srv' = [srv EXCEPT !.known = FALSE, !.type = SrvAuth]
      /\ UNCHANGED <<tree, disk>>
  BY DEF StartSession
<1>2. tree \in Accounts /\ srv \in Servers
  BY DEF IInv, TypeOK, Servers
<1>3. First' /\ ~sess'.generated
  BY <1>1, <1>2, InitialValues DEF First, NewSession
<1>4. srv'.own = srv.own /\ ~srv'.known
  BY <1>1, <1>2 DEF Servers
<1>5. ResyncInv'
  BY <1>1, <1>4 DEF AgreeInv, ResyncInv, Resynced
<1>6. InStep(creds', tree')
  BY <1>1, <1>2, InitialInStep
<1>7. OwnInv'
  BY <1>1, <1>3 DEF OwnInv
<1>8. GivenInv'
  <2>1. req'.hmac = NoNonce /\ req'.cred = HeaderCred(creds', creds'.cliType)
    BY <1>1 DEF NoRequest
  <2>2. req'.cred.type >= CHAL_MD5 => req'.cred.nonce = creds'.cliNonce
    BY <2>1 DEF HeaderCred, NoChallenge
  <2> QED
    BY <1>1, <1>4, <2>1, <2>2 DEF GivenInv, Given
<1>9. InStep(creds, tree)'
  BY <1>6
<1> QED
  BY <1>1, <1>5, <1>7, <1>8, <1>9 DEF AgreeInv

LEMMA NotifyAgrees ==
    ASSUME IInv, AgreeInv, NEW n \in Nonces, NEW lost \in BOOLEAN, Notify(n, lost)
    PROVE  AgreeInv'
<1>1. /\ pc' = "idle" /\ n \in {srv.own, Resync} /\ disk' = disk
      /\ srv' = IF n = Resync THEN [srv EXCEPT !.own = n, !.given = n] ELSE srv
      /\ tree' = IF ~lost /\ n = Resync /\ tree.srv[NotifyProfile] # n
                 THEN [tree EXCEPT !.srv[NotifyProfile] = Resync] ELSE tree
  BY DEF Notify
<1>2. tree \in Accounts /\ srv \in Servers
  BY DEF IInv, TypeOK, Servers
<1>3. CASE n = Resync
  <2>1. srv'.own = Resync
    BY <1>1, <1>2, <1>3 DEF Servers
  <2>2. Resynced(tree) => Resynced(tree')
    BY <1>1, <1>2 DEF Resynced, Accounts
  <2>3. ResyncInv'
    BY <1>1, <2>1, <2>2 DEF AgreeInv, ResyncInv, Resynced
  <2> QED
    BY <1>1, <2>3, EndAgrees
<1>4. CASE n # Resync
  <2>1. ResyncInv'
    BY <1>1, <1>4 DEF AgreeInv, ResyncInv, Resynced
  <2> QED
    BY <1>1, <2>1, EndAgrees
<1> QED
  BY <1>3, <1>4

\* A step of the session that leaves what the sides know.
LEMMA SameAgrees ==
    ASSUME AgreeInv, pc # "idle", UNCHANGED <<creds, req, srv, tree>>,
           disk' \in {tree, disk},
           \/ pc' = pc /\ answer' = answer
           \/ pc = "commands" /\ pc' = "check"
           \/ pc = "check" /\ pc' = "send",
           sess'.auth = sess.auth, sess'.generated = sess.generated,
           quiet' => quiet, cancel' => ~quiet'
    PROVE  AgreeInv'
<1>1. ResyncInv /\ InStep(creds, tree) /\ OwnInv /\ GivenInv /\ First' = First
  BY DEF AgreeInv, First
<1>2. ResyncInv'
  BY <1>1 DEF ResyncInv, Resynced
<1>3. InStep(creds, tree)'
  BY <1>1 DEF InStep, Resynced
<1>4. OwnInv'
  BY <1>1 DEF OwnInv, First, Proves, Resynced
<1>5. GivenInv'
  BY <1>1 DEF GivenInv, Given, Resynced
<1> QED
  BY <1>2, <1>3, <1>4, <1>5 DEF AgreeInv

LEMMA SendAgrees ==
    ASSUME IInv, AgreeInv, SendPackage PROVE AgreeInv'
<1>1. /\ pc = "send" /\ pc' = "exchange"
      /\ UNCHANGED <<creds, sess, tree, disk, cancel, srv, quiet>>
  BY DEF SendPackage
<1>2. /\ req'.cred = req.cred
      /\ req'.hmac \in {NoNonce, creds.cliNonce}
  <2>1. req \in Requests
    BY DEF IInv, TypeOK
  <2>2. req' = [req EXCEPT !.hmac = IF creds.cliType = CHAL_HMAC
                                    THEN creds.cliNonce ELSE NoNonce]
    BY DEF SendPackage
  <2> QED
    BY <2>1, <2>2 DEF Requests
<1>3. /\ ResyncInv /\ InStep(creds, tree) /\ OwnInv /\ GivenInv
      /\ cancel => ~quiet
  BY <1>1 DEF AgreeInv
<1>4. ResyncInv' /\ InStep(creds, tree)'
  BY <1>1, <1>3 DEF ResyncInv, InStep, Resynced
<1>5. OwnInv'
  BY <1>1, <1>3 DEF OwnInv, First, Resynced
<1>6. GivenInv'
  BY <1>1, <1>2, <1>3 DEF GivenInv, Given, Resynced
<1> QED
  BY <1>1, <1>3, <1>4, <1>5, <1>6 DEF AgreeInv

LEMMA LoseAgrees ==
    ASSUME AgreeInv, LoseRequest PROVE AgreeInv'
<1>1. pc = "exchange" /\ Retry /\ UNCHANGED <<cancel, srv>>
  BY DEF LoseRequest
<1>2. CASE tries + 1 < MaxTries
  <2>1. UNCHANGED <<pc, creds, sess, req, answer, tree, disk>> /\ quiet' = FALSE
    BY <1>1, <1>2 DEF Retry
  <2> QED
    BY <1>1, <2>1, SameAgrees
<1>3. CASE ~(tries + 1 < MaxTries)
  <2>1. Return("fail", tree)
    BY <1>1, <1>3 DEF Retry
  <2>2. Resynced(tree) => srv'.own = Resync
    BY <1>1 DEF AgreeInv, ResyncInv
  <2> QED
    BY <2>1, <2>2, ReturnAgrees
<1> QED
  BY <1>2, <1>3

\* A server that knows the client by this request knows it by the nonce that
\* is in the tree.
LEMMA RightGiven ==
    ASSUME IInv, OneType, AgreeInv, pc = "exchange", Right, ~Resynced(tree)
    PROVE  tree.cli[SrvAuth] = srv.given
<1>1. SrvAuth \in 2..3 /\ Demand = SrvAuth /\ req.cred \in Challenges
      /\ req \in Requests
  BY OneTypeSuited DEF OneType, IInv, TypeOK, Requests
<1>2. /\ creds.cliNonce = tree.cli[SrvAuth]
      /\ req.cred.type >= CHAL_MD5 => req.cred.nonce = creds.cliNonce
      /\ req.hmac # NoNonce => req.hmac = creds.cliNonce
  BY DEF AgreeInv, InStep, GivenInv
<1>3. SentType(req) >= 2 /\ SentNonce(req) = srv.given
  <2>1. SentType(req) \in 0..3
    BY <1>1 DEF SentType, Challenges
  <2> QED
    BY <1>1, <2>1 DEF Right
<1> QED
  BY <1>2, <1>3 DEF SentType, SentNonce

\* The server's nonce is the one that the client has in memory, or the one
\* that it had; its answer proves it with that nonce.
LEMMA ExchangeAgrees ==
    ASSUME IInv, OneType, RecoverInv, AgreeInv, pc = "exchange",
           NEW r \in Replies, NEW lost \in BOOLEAN, Exchange(r, lost)
    PROVE  AgreeInv'
<1>1. /\ TypeOK /\ CredsInv /\ Suited /\ FirstInv /\ LaterInv
      /\ ResyncInv /\ InStep(creds, tree) /\ OwnInv /\ GivenInv
      /\ cancel => ~quiet
  BY OneTypeSuited DEF IInv, RecoverInv, AgreeInv
<1>2. SrvAuth \in 2..3
  BY OneTypeSuited
<1>3. /\ srv' = r.server /\ cancel' = cancel
  BY DEF Exchange
<1>4. /\ r.server.own = IF req.chal.type >= CHAL_MD5 THEN req.chal.nonce
                         ELSE srv.own
      /\ IF r.server.type = CHAL_HMAC
         THEN r.reply.hmac = r.server.own /\ r.reply.cred.type = CHAL_NONE
         ELSE /\ r.reply.hmac = NoNonce
              /\ r.reply.cred = Credential(r.server.type, r.server.own)
      /\ r.reply.status = "ok" => r.server.known
      /\ r.server.known => Right \/ srv.known
      /\ r.reply.chal.type \in {CHAL_NONE, SrvAuth}
      /\ IF r.reply.chal.type = CHAL_NONE
         THEN r.server.known /\ r.server.given = srv.given
         ELSE r.reply.chal.nonce = r.server.given
  BY <1>1, HonestMemory
<1>5. r.server.type = IF req.chal.type # CHAL_NONE THEN req.chal.type
                      ELSE srv.type
  BY <1>1, HonestReply
<1>6. /\ r.server.type = SrvAuth
      /\ Resynced(tree) => r.server.own = Resync
  <2>1. CASE First
    <3>1. req.chal.type = CHAL_NONE /\ srv.type = SrvAuth
      BY <1>1, <2>1 DEF FirstInv, NoChallenge
    <3> QED
      BY <1>1, <1>4, <1>5, <3>1 DEF ResyncInv
  <2>2. CASE ~First
    <3>1. creds.srvType = SrvAuth
          /\ (Resynced(tree) => creds.srvNonce = Resync)
      BY <1>1, <2>2 DEF OwnInv, Resynced
    <3>2. req.chal = [type |-> SrvAuth, nonce |-> creds.srvNonce]
      BY <1>1, <1>2, <2>2, <3>1 DEF LaterInv, Asked
    <3> QED
      BY <1>2, <1>4, <1>5, <3>1, <3>2
  <2> QED
    BY <2>1, <2>2
<1>7. CASE lost
  <2>1. Retry
    BY <1>7 DEF Exchange
  <2>2. CASE tries + 1 < MaxTries
    <3>1. /\ UNCHANGED <<pc, creds, sess, req, answer, tree, disk>>
          /\ quiet' = FALSE
      BY <2>1, <2>2 DEF Retry
    <3>2. ResyncInv' /\ InStep(creds, tree)'
      BY <1>1, <1>3, <1>6, <3>1 DEF ResyncInv, InStep, Resynced
    <3>3. OwnInv'
      BY <1>1, <3>1 DEF OwnInv, First, Resynced
    <3>4. GivenInv'
      BY <1>1, <3>1 DEF GivenInv, Given
    <3> QED
      BY <3>1, <3>2, <3>3, <3>4 DEF AgreeInv
  <2>3. CASE ~(tries + 1 < MaxTries)
    <3>1. Return("fail", tree)
      BY <2>1, <2>3 DEF Retry
    <3> QED
      BY <1>3, <1>6, <3>1, ReturnAgrees
  <2> QED
    BY <2>2, <2>3
<1>8. CASE ~lost
  <2>1. /\ answer' = r.reply /\ pc' = "loop"
        /\ UNCHANGED <<creds, sess, req, tree, disk, quiet>>
    BY <1>8 DEF Exchange
  <2>2. ResyncInv' /\ InStep(creds, tree)'
    BY <1>1, <1>3, <1>6, <2>1 DEF ResyncInv, InStep, Resynced
  <2>3. OwnInv'
    <3>1. Proves(SrvAuth, srv.own)'
      BY <1>3, <1>4, <1>6, <2>1 DEF Proves
    <3> QED
      BY <1>1, <2>1, <3>1 DEF OwnInv, First, Resynced
  <2>4. GivenInv'
    <3>1. answer'.chal.type = CHAL_NONE => Given'
      <4> SUFFICES ASSUME answer'.chal.type = CHAL_NONE, quiet, ~Resynced(tree)
                   PROVE  tree.cli[SrvAuth] = r.server.given
        BY <1>3, <2>1 DEF Given, Resynced
      <4>1. r.server.given = srv.given /\ (Right \/ srv.known)
        BY <1>4, <2>1
      <4>2. srv.known => tree.cli[SrvAuth] = srv.given
        BY <1>1 DEF GivenInv, Given
      <4> QED
        BY <4>1, <4>2, RightGiven
    <3> QED
      BY <1>3, <1>4, <2>1, <3>1 DEF GivenInv
  <2> QED
    BY <1>1, <1>3, <2>1, <2>2, <2>3, <2>4 DEF AgreeInv
<1> QED
  BY <1>7, <1>8

\* The client trusts the server if their nonces are the same.
LEMMA ReceiveAgrees ==
    ASSUME IInv, OneType, RecoverInv, AgreeInv, ReceiveMessage PROVE AgreeInv'
<1> DEFINE m == [sess EXCEPT !.more = FALSE]
           r == RecvPackage(creds, m)
           a == CheckAuthorization(r[1], r[2])
           ok == "server" \in a[2].auth
<1>1. /\ pc = "loop" /\ pc' = "status" /\ creds' = a[1]
      /\ sess' = IF ok THEN [a[2] EXCEPT !.srvRetry = 0] ELSE a[2]
      /\ UNCHANGED <<req, answer, tree, disk, cancel, srv, quiet>>
  BY DEF ReceiveMessage
<1>2. /\ m \in Sessions /\ m.auth = sess.auth /\ m.srvRetry = sess.srvRetry
      /\ m.srvRetry <= MAX_AUTH_RETRY /\ m.generated = sess.generated
  BY <1>1 DEF IInv, TypeOK, RetryInv, Sessions
<1>3. /\ TypeOK /\ CredsInv /\ FirstInv /\ LaterInv /\ OwnInv /\ GivenInv
      /\ ResyncInv /\ InStep(creds, tree) /\ Proves(SrvAuth, srv.own)
      /\ srv.own \in Nonces /\ (cancel => ~quiet)
  BY <1>1 DEF IInv, RecoverInv, AgreeInv, OwnInv, TypeOK
<1> HIDE DEF m
<1>4. From(creds, r[1]) /\ r[2] \in Sessions /\ r[2].generated = sess.generated
  BY <1>2, <1>3, RecvPackageTyped
<1>5. a[2] \in Sessions /\ a[2].generated = sess.generated
  BY <1>3, <1>4, CheckAuthorizationTyped
<1>6. /\ a[1].srvType = SrvAuth /\ SameClient(creds, a[1])
      /\ a[1].srvURI = SrvAuth
      /\ IF sess.generated THEN ~Resynced(tree) /\ a[1].srvNonce # Resync
         ELSE a[1].srvNonce = tree.srv[SrvAuth]
      /\ ok <=> a[1].srvNonce = srv.own
  <2>1. CASE First
    <3>1. "server" \notin m.auth /\ m.srvRetry = 0 /\ ~sess.generated
      BY <1>1, <1>2, <1>3, <2>1 DEF FirstInv, OwnInv
    <3>2. /\ Exact(a[1], tree, SrvAuth) /\ SameClient(creds, a[1])
          /\ ok <=> srv.own = tree.srv[SrvAuth]
      BY <1>2, <1>3, <2>1, <3>1, FirstAnswerExact
    <3> HIDE DEF a
    <3> QED
      BY <3>1, <3>2 DEF Exact
  <2>2. CASE ~First
    <3>1. /\ creds.srvType = SrvAuth /\ creds.srvType >= CHAL_BASIC
          /\ Proves(SrvAuth, creds.srvNonce)
      BY <1>1, <1>3, <2>2 DEF LaterInv, OwnInv
    <3>2. a[1] = creds /\ ok
      BY <1>2, <1>3, <3>1, LaterAnswer
    <3>3. creds.srvNonce = srv.own
      <4>1. SrvAuth \in 2..3
        BY OneTypeSuited
      <4> QED
        BY <1>3, <3>1, <4>1 DEF Proves, Credential
    <3> HIDE DEF a
    <3> QED
      BY <1>3, <2>2, <3>1, <3>2, <3>3 DEF OwnInv, InStep, SameClient
  <2> QED
    BY <2>1, <2>2
<1> HIDE DEF a, r
<1>7. ("server" \in sess'.auth <=> ok) /\ sess'.generated = sess.generated
  BY <1>1, <1>5 DEF Sessions
<1>8. ResyncInv' /\ InStep(creds, tree)'
  BY <1>1, <1>3, <1>6 DEF ResyncInv, InStep, Resynced, SameClient
<1>9. OwnInv'
  BY <1>1, <1>6, <1>7, OneTypeSuited DEF OwnInv, First, Resynced
<1>10. GivenInv'
  BY <1>1, <1>3 DEF GivenInv, Given, Resynced
<1> QED
  BY <1>1, <1>3, <1>8, <1>9, <1>10 DEF AgreeInv

\* The account after HandleStatusCommand: the nonce in memory is stored as the
\* server's, and that of a challenge as the client's.
LEMMA ServerNonceKept ==
    ASSUME OneType, NEW c, CredsOK(c), NEW t \in Accounts, InStep(c, t),
           c.srvNonce \in Nonces, NEW u, u = SaveServerNonce(c, t)
    PROVE  u.srv[SrvAuth] = c.srvNonce /\ u.cli = t.cli
<1>1. SrvAuth \in SrvProfiles /\ SrvAuth # CHAL_NONE /\ c.srvURI = SrvAuth
      /\ c.srvNonce # NoNonce
  BY OneTypeSuited, NonceAssumption DEF Suited, InStep
<1>2. u = [t EXCEPT !.srv[SrvAuth] = c.srvNonce]
  BY <1>1 DEF SaveServerNonce
<1> QED
  BY <1>1, <1>2 DEF Accounts

LEMMA ClientNonceKept ==
    ASSUME OneType, NEW c, NEW t \in Accounts, InStep(c, t), NEW n \in Nonces,
           NEW u, u = SaveClientNonce(c, t, n)
    PROVE  u.cli[SrvAuth] = n /\ u.srv = t.srv
<1>1. SrvAuth \in CliProfiles /\ SrvAuth # CHAL_NONE /\ c.cliURI = SrvAuth
  BY OneTypeSuited DEF InStep
<1>2. u = [t EXCEPT !.cli[SrvAuth] = n]
  BY <1>1 DEF SaveClientNonce
<1> QED
  BY <1>1, <1>2 DEF Accounts

LEMMA StatusKeeps ==
    ASSUME IInv, OneType, RecoverInv, AgreeInv, NEW n \in Nonces, HandleStatus(n)
    PROVE  /\ InStep(creds, tree)'
           /\ tree'.srv[SrvAuth] = creds.srvNonce
           /\ tree'.cli[SrvAuth] = IF answer.chal.type = CHAL_NONE
                                   THEN tree.cli[SrvAuth] ELSE srv.given
           /\ IF "server" \in sess.auth THEN creds'.srvNonce = creds.srvNonce
              ELSE creds'.srvNonce = n /\ n # Resync
           /\ sess'.generated <=> "server" \notin sess.auth
           /\ "client" \in sess'.auth => answer.status = "ok"
           /\ req'.hmac = NoNonce
           /\ req'.cred.type >= CHAL_MD5 => req'.cred.nonce = creds'.cliNonce
<1> DEFINE
      ok == answer.status = "ok"
      chal == answer.chal
      t0 == IF sess.generated THEN SaveServerNonce(creds, tree) ELSE tree
      t1 == IF ok /\ creds.updated THEN [t0 EXCEPT !.pref = creds.cliType] ELSE t0
      c1 == IF ok THEN [creds EXCEPT !.updated = FALSE] ELSE creds
      c2 == IF chal.type = CHAL_NONE THEN c1
            ELSE SetPrefClientAuth(c1, t1, chal.type)
      given == chal.type # CHAL_NONE /\ chal.nonce # NoNonce
      t2 == IF given THEN SaveClientNonce(c2, t1, chal.nonce) ELSE t1
      c3 == IF given THEN [c2 EXCEPT !.cliNonce = chal.nonce] ELSE c2
      c4 == SetPrefClientAuth(c3, t2, chal.type)
      auth == IF ok THEN sess.auth \cup {"client"} ELSE sess.auth \ {"client"}
      new == "server" \notin sess.auth /\ c4.srvType > CHAL_BASIC
      c5 == IF new THEN [c4 EXCEPT !.srvNonce = n] ELSE c4
<1>1. /\ pc = "status" /\ n \in Fresh(SrvNoncesInUse)
      /\ creds' = c5 /\ tree' = t2
      /\ sess'.auth = auth /\ sess'.generated = new
      /\ req'.hmac = NoNonce /\ req'.cred = HeaderCred(c4, chal.type)
  <2>1. sess \in Sessions
    BY DEF IInv, TypeOK
  <2> QED
    BY <2>1 DEF HandleStatus, Sessions
<1>2. /\ CredsOK(creds) /\ creds.cliType >= 0 /\ tree \in Accounts
      /\ srv.given \in Nonces /\ srv.given # NoNonce /\ SrvAuth \in 2..3
  BY <1>1, OneTypeSuited, NonceAssumption DEF IInv, TypeOK, CredsInv
<1>3. /\ ~First /\ creds.srvType = SrvAuth /\ creds.srvNonce \in Nonces
      /\ InStep(creds, tree)
      /\ IF sess.generated THEN ~Resynced(tree) /\ creds.srvNonce # Resync
         ELSE creds.srvNonce = tree.srv[SrvAuth]
      /\ chal.type \in {CHAL_NONE, SrvAuth}
      /\ chal.type # CHAL_NONE => chal.nonce = srv.given
  <2>1. ~First /\ InStep(creds, tree) /\ OwnInv /\ GivenInv
    BY <1>1 DEF AgreeInv, RecoverInv, FirstInv
  <2>2. creds.srvType = SrvAuth
        /\ IF sess.generated THEN ~Resynced(tree) /\ creds.srvNonce # Resync
           ELSE creds.srvNonce = tree.srv[SrvAuth]
    BY <2>1 DEF OwnInv
  <2>3. creds.srvNonce \in Nonces
    BY <1>2, <2>2 DEF CredsOK
  <2>4. /\ chal.type \in {CHAL_NONE, SrvAuth}
        /\ chal.type # CHAL_NONE => chal.nonce = srv.given
    BY <1>1, <2>1 DEF GivenInv
  <2> QED
    BY <2>1, <2>2, <2>3, <2>4
<1>4. /\ t0 \in Accounts /\ t0.srv[SrvAuth] = creds.srvNonce
      /\ t0.cli = tree.cli
  BY <1>2, <1>3, ServerNonceKept, ServerNonceSaved
<1>5. InStep(creds, t0)
  BY <1>3, <1>4 DEF InStep, Resynced
<1> HIDE DEF t0
<1>6. t1 \in Accounts /\ t1.srv = t0.srv /\ t1.cli = t0.cli
  <2>1. creds.cliType \in Types \cup {CHAL_NONE}
    BY <1>2 DEF CredsOK, Credentials
  <2> QED
    BY <1>4, <2>1 DEF Accounts
<1> HIDE DEF t1
<1>7. /\ CredsOK(c1) /\ c1.cliType >= 0 /\ InStep(c1, t1)
      /\ c1.srvNonce = creds.srvNonce /\ c1.srvType = SrvAuth
  BY <1>2, <1>3, <1>5, <1>6 DEF CredsOK, Credentials, InStep, Resynced
<1> HIDE DEF c1
<1>8. /\ CredsOK(c2) /\ c2.cliType >= 0 /\ InStep(c2, t1)
      /\ c2.srvNonce = creds.srvNonce /\ c2.srvType = SrvAuth
  <2>1. CASE chal.type = CHAL_NONE
    BY <1>7, <2>1
  <2>2. CASE chal.type # CHAL_NONE
    <3>1. c2 = SetPrefClientAuth(c1, t1, SrvAuth)
      BY <1>3, <2>2
    <3> HIDE DEF c2
    <3>2. Follows(c1, c2, t1)
      BY <1>6, <1>7, <3>1, ClientAuthInStep
    <3> QED
      BY <1>7, <3>2 DEF Follows
  <2> QED
    BY <2>1, <2>2
<1> HIDE DEF c2
<1>9. /\ t2 \in Accounts /\ t2.srv = t0.srv
      /\ t2.cli[SrvAuth] = IF chal.type = CHAL_NONE THEN tree.cli[SrvAuth]
                           ELSE srv.given
  <2>1. CASE chal.type = CHAL_NONE
    BY <1>4, <1>6, <2>1
  <2>2. CASE chal.type # CHAL_NONE
    <3>1. t2 = SaveClientNonce(c2, t1, srv.given)
      BY <1>2, <1>3, <2>2
    <3> HIDE DEF t2
    <3> QED
      BY <1>2, <1>6, <1>8, <2>2, <3>1, ClientNonceKept, ClientNonceSaved
  <2> QED
    BY <2>1, <2>2
<1>10. /\ CredsOK(c3) /\ c3.cliType >= 0 /\ InStep(c3, t2)
       /\ c3.srvNonce = creds.srvNonce /\ c3.srvType = SrvAuth
  <2>1. CASE chal.type = CHAL_NONE
    BY <1>8, <2>1
  <2>2. CASE chal.type # CHAL_NONE
    <3>1. c3 = [c2 EXCEPT !.cliNonce = srv.given]
      BY <1>2, <1>3, <2>2
    <3>2. c2 \in Credentials /\ srv.given \in Nonces0
      BY <1>2, <1>8 DEF CredsOK, Nonces0
    <3> HIDE DEF c3, t2
    <3>3. /\ c3 \in Credentials /\ c3.cliNonce = srv.given
          /\ c3.cliType = c2.cliType /\ c3.cliURI = c2.cliURI
          /\ c3.srvURI = c2.srvURI /\ c3.srvType = c2.srvType
          /\ c3.srvNonce = c2.srvNonce
      BY <3>1, <3>2 DEF Credentials
    <3> QED
      BY <1>8, <1>9, <2>2, <3>3 DEF CredsOK, InStep, Resynced
  <2> QED
    BY <2>1, <2>2
<1> HIDE DEF c3, t2
<1>11. /\ CredsOK(c4) /\ c4.cliType >= 0 /\ InStep(c4, t2)
       /\ c4.srvNonce = creds.srvNonce /\ c4.srvType = SrvAuth
  <2> HIDE DEF chal, c4
  <2>1. c4 = SetPrefClientAuth(c3, t2, chal.type)
    BY DEF c4
  <2>2. Follows(c3, c4, t2)
    BY <1>3, <1>9, <1>10, <2>1, ClientAuthInStep
  <2> QED
    BY <1>10, <2>2 DEF Follows
<1> HIDE DEF c4
<1>12. /\ InStep(c5, t2) /\ c5.cliNonce = c4.cliNonce
       /\ c5.srvNonce = IF new THEN n ELSE creds.srvNonce
  BY <1>11 DEF CredsOK, Credentials, InStep
<1>13. /\ new <=> "server" \notin sess.auth
       /\ sess'.generated <=> "server" \notin sess.auth
  <2>1. c4.srvType > CHAL_BASIC
    BY <1>2, <1>11
  <2>2. new <=> "server" \notin sess.auth
    BY <2>1
  <2>3. sess'.generated = new
    BY <1>1
  <2> HIDE DEF new
  <2> QED
    BY <2>2, <2>3, Zenon
<1>14. n # Resync
  <2>1. Resync \in SrvNoncesInUse
    BY DEF SrvNoncesInUse
  <2> QED
    BY <1>1, <2>1, FreshNonces
<1>15. req'.cred.type >= CHAL_MD5 => req'.cred.nonce = c4.cliNonce
  <2>1. req'.cred = HeaderCred(c4, chal.type)
    BY <1>1
  <2> HIDE DEF chal
  <2> QED
    BY <2>1 DEF HeaderCred, NoChallenge
<1>16. "client" \in sess'.auth => ok
  BY <1>1
<1> HIDE DEF c5, new, auth
<1>17. InStep(creds, tree)'
  BY <1>1, <1>12
<1>18. /\ tree'.srv[SrvAuth] = creds.srvNonce
       /\ tree'.cli[SrvAuth] = IF answer.chal.type = CHAL_NONE
                               THEN tree.cli[SrvAuth] ELSE srv.given
  BY <1>1, <1>4, <1>9
<1>19. IF "server" \in sess.auth THEN creds'.srvNonce = creds.srvNonce
       ELSE creds'.srvNonce = n /\ n # Resync
  BY <1>1, <1>12, <1>13, <1>14
<1>20. req'.cred.type >= CHAL_MD5 => req'.cred.nonce = creds'.cliNonce
  BY SMTT(30), <1>1, <1>12, <1>15
<1> QED
  BY SMTT(30), <1>1, <1>13, <1>16, <1>17, <1>18, <1>19, <1>20

\* A nonce that was generated is stored once it is answered, and a server that
\* is not trusted gets another.
LEMMA StatusAgrees ==
    ASSUME IInv, OneType, RecoverInv, AgreeInv, NEW n \in Nonces, HandleStatus(n)
    PROVE  AgreeInv'
<1>1. /\ pc = "status" /\ pc' = "commands"
      /\ UNCHANGED <<srv, disk, cancel, quiet>>
  BY DEF HandleStatus
<1>2. /\ ~First /\ ResyncInv /\ InStep(creds, tree) /\ OwnInv /\ GivenInv
      /\ cancel => ~quiet
  BY <1>1 DEF AgreeInv, RecoverInv, FirstInv
<1>3. /\ InStep(creds, tree)'
      /\ tree'.srv[SrvAuth] = creds.srvNonce
      /\ tree'.cli[SrvAuth] = IF answer.chal.type = CHAL_NONE
                              THEN tree.cli[SrvAuth] ELSE srv.given
      /\ IF "server" \in sess.auth THEN creds'.srvNonce = creds.srvNonce
         ELSE creds'.srvNonce = n /\ n # Resync
      /\ sess'.generated <=> "server" \notin sess.auth
      /\ "client" \in sess'.auth => answer.status = "ok"
      /\ req'.hmac = NoNonce
      /\ req'.cred.type >= CHAL_MD5 => req'.cred.nonce = creds'.cliNonce
  BY StatusKeeps
<1>4. /\ creds'.srvType = creds.srvType
      /\ "server" \in sess'.auth <=> "server" \in sess.auth
  BY HandleStatusStep
<1>5. Resynced(tree') <=> Resynced(tree)
  BY <1>2, <1>3 DEF OwnInv, Resynced
<1>6. ResyncInv'
  BY <1>1, <1>2, <1>5 DEF ResyncInv, Resynced
<1>7. "server" \in sess.auth <=> creds.srvNonce = srv.own
  BY <1>1, <1>2 DEF OwnInv
<1>8. OwnInv'
  <2>1. ~First' /\ creds'.srvType = SrvAuth
    BY <1>2, <1>4 DEF First, OwnInv
  <2>2. "server" \notin sess.auth => ~Resynced(tree')
    BY <1>2, <1>3, <1>5, <1>7 DEF ResyncInv, Resynced
  <2> QED
    BY <1>1, <1>3, <1>4, <1>7, <2>1, <2>2 DEF OwnInv, Resynced
<1>9. GivenInv'
  <2>1. Given'
    BY <1>1, <1>2, <1>3, <1>5 DEF GivenInv, Given, Resynced
  <2>2. "client" \in sess'.auth => srv.known
    BY <1>1, <1>2, <1>3 DEF GivenInv
  <2> QED
    BY <1>1, <1>3, <2>1, <2>2 DEF GivenInv
<1> QED
  BY SMTT(30), <1>1, <1>2, <1>3, <1>6, <1>8, <1>9 DEF AgreeInv

\* Every action keeps AgreeInv.
LEMMA AgreeStep ==
    OneType /\ IInv /\ RecoverInv /\ AgreeInv /\ [Next]_vars => AgreeInv'
<1> SUFFICES ASSUME OneType, IInv, RecoverInv, AgreeInv, [Next]_vars
             PROVE  AgreeInv'
  OBVIOUS
<1>0. Resynced(tree) => srv.own = Resync
  BY DEF AgreeInv, ResyncInv
<1>1. CASE Step
  <2>1. CASE SendPackage
    BY <2>1, SendAgrees
  <2>2. CASE LoseRequest
    BY <2>2, LoseAgrees
  <2>3. CASE HttpFails \/ LeaveCancelled \/ GiveUp \/ EndSession
    <3>1. PICK r \in {"fail", "success", "auth_fail"} : Return(r, tree) /\ srv' = srv
      BY <2>3 DEF HttpFails, LeaveCancelled, GiveUp, EndSession
    <3> QED
      BY <1>0, <3>1, ReturnAgrees
  <2>4. CASE ParseFails
    BY <1>0, <2>4, ReturnAgrees DEF ParseFails
  <2>5. ASSUME pc = "exchange", NEW r \in Replies, NEW lost \in BOOLEAN,
               Exchange(r, lost)
        PROVE  AgreeInv'
    BY <2>5, ExchangeAgrees
  <2>6. CASE ReceiveMessage
    BY <2>6, ReceiveAgrees
  <2>7. ASSUME NEW n \in Nonces, HandleStatus(n) PROVE AgreeInv'
    BY <2>7, StatusAgrees
  <2>8. ASSUME NEW abort \in BOOLEAN, NEW save \in BOOLEAN,
               HandleCommands(abort, save)
        PROVE  AgreeInv'
    <3>1. /\ pc = "commands" /\ pc' = "check"
          /\ UNCHANGED <<creds, req, srv, tree, quiet, cancel>>
          /\ disk' \in {tree, disk}
          /\ sess' = [sess EXCEPT !.more = @ \/ answer.commands,
                                  !.aborted = abort]
      BY <2>8 DEF HandleCommands
    <3>2. sess'.auth = sess.auth /\ sess'.generated = sess.generated
      BY <3>1 DEF IInv, TypeOK, Sessions
    <3>3. cancel' => ~quiet'
      BY <3>1 DEF AgreeInv
    <3> QED
      BY <3>1, <3>2, <3>3, SameAgrees
  <2>9. CASE Continue
    <3>1. /\ pc = "check" /\ pc' = "send"
          /\ UNCHANGED <<creds, sess, req, srv, tree, disk, quiet, cancel>>
      BY <2>9 DEF Continue
    <3>2. cancel' => ~quiet'
      BY <3>1 DEF AgreeInv
    <3> QED
      BY <3>1, <3>2, SameAgrees
  <2> QED
    BY <1>1, <2>1, <2>2, <2>3, <2>4, <2>5, <2>6, <2>7, <2>8, <2>9 DEF Step
<1>2. CASE StartSession
  BY <1>2, StartAgrees
<1>3. ASSUME NEW n \in Nonces, NEW lost \in BOOLEAN, Notify(n, lost)
      PROVE  AgreeInv'
  BY <1>3, NotifyAgrees
<1>4. CASE Cancel
  <2>1. /\ pc # "idle" /\ quiet' = FALSE
        /\ UNCHANGED <<pc, creds, sess, req, answer, tree, disk, srv>>
    BY <1>4 DEF Cancel
  <2> QED
    BY <2>1, SameAgrees
<1>5. CASE Crash
  <2>1. pc' = "idle" /\ tree' = disk /\ disk' = disk /\ srv' = srv
    BY <1>5 DEF Crash
  <2>2. ResyncInv'
    BY <2>1 DEF AgreeInv, ResyncInv, Resynced
  <2> QED
    BY <2>1, <2>2, EndAgrees
<1>6. CASE UNCHANGED vars
  <2>1. UNCHANGED <<pc, creds, sess, req, answer, tree, disk, srv, quiet, cancel>>
    BY <1>6 DEF vars
  <2>2. CASE pc = "idle"
    <3>1. ResyncInv'
      BY <2>1 DEF AgreeInv, ResyncInv, Resynced
    <3> QED
      BY <2>1, <2>2, <3>1, EndAgrees
  <2>3. CASE pc # "idle"
    <3>1. cancel' => ~quiet'
      BY <2>1, <2>3 DEF AgreeInv
    <3> QED
      BY <2>1, <2>3, <3>1, SameAgrees
  <2> QED
    BY <2>2, <2>3
<1> QED
  BY <1>1, <1>2, <1>3, <1>4, <1>5, <1>6 DEF Next

\* A session that is neither disturbed nor cancelled ends after its commands.
LEMMA QuietEnd ==
    ASSUME IInv, AgreeInv, [Next]_vars, pc # "idle", pc' = "idle", quiet'
    PROVE  pc = "check" /\ quiet /\ UNCHANGED <<tree, srv>>
<1>1. CASE Step
  <2>1. CASE HttpFails \/ ParseFails \/ LoseRequest
    BY <2>1 DEF HttpFails, ParseFails, LoseRequest, Retry
  <2>2. CASE LeaveCancelled
    BY <2>2 DEF LeaveCancelled, AgreeInv
  <2>3. CASE GiveUp \/ EndSession
    BY <2>3 DEF GiveUp, EndSession, Return
  <2>4. ASSUME NEW r \in Replies, NEW lost \in BOOLEAN, Exchange(r, lost)
        PROVE  FALSE
    BY <2>4 DEF Exchange, Retry
  <2>5. CASE SendPackage \/ ReceiveMessage \/ Continue
    BY SMTT(30), <2>5 DEF SendPackage, ReceiveMessage, Continue
  <2>6. ASSUME NEW n \in Nonces, HandleStatus(n) PROVE FALSE
    BY <2>6 DEF HandleStatus
  <2>7. ASSUME NEW abort \in BOOLEAN, NEW save \in BOOLEAN,
               HandleCommands(abort, save)
        PROVE  FALSE
    BY <2>7 DEF HandleCommands
  <2> QED
    BY <1>1, <2>1, <2>2, <2>3, <2>4, <2>5, <2>6, <2>7 DEF Step
<1>2. CASE StartSession \/ \E n \in Nonces, lost \in BOOLEAN : Notify(n, lost)
  BY <1>2 DEF StartSession, Notify
<1>3. CASE Cancel \/ Crash
  BY <1>3 DEF Cancel, Crash
<1>4. CASE UNCHANGED vars
  BY <1>4 DEF vars
<1> QED
  BY <1>1, <1>2, <1>3, <1>4 DEF Next

\* After a session in which nothing was lost, cancelled, cut short or reset and
\* both sides proved themselves, the client has stored the nonces that the
\* server remembers, whatever the profiles of the server, the client's level
\* and the history before the session: the next one starts without a refusal
\* (dm_ua_handlecommand.cc:2513-2525, 2695-2700).
THEOREM SidesAgree ==
    ASSUME Honest, SrvAuth \in {CHAL_MD5, CHAL_HMAC}, Demand = SrvAuth,
           SrvAuth \in SrvProfiles, CliProfiles = {SrvAuth},
           SecurityLevel > SrvAuth => \A p \in SrvProfiles : p < SecurityLevel
    PROVE  Spec => NoncesAgree
<1>1. OneType /\ Suited
  BY OneTypeSuited DEF OneType
<1>2. Init => RecoverInv /\ AgreeInv
  BY <1>1, InitAgrees DEF Init, RecoverInv
<1>3. IInv /\ RecoverInv /\ AgreeInv /\ [Next]_vars => RecoverInv' /\ AgreeInv'
  BY <1>1, RecoverStep, AgreeStep
<1>4. IInv /\ AgreeInv /\ [Next]_vars =>
          [(pc # "idle" /\ pc' = "idle" /\ quiet'
                /\ sess.auth = {"client", "server"}) => InSync']_vars
  <2> SUFFICES ASSUME IInv, AgreeInv, [Next]_vars, pc # "idle", pc' = "idle",
                      quiet', sess.auth = {"client", "server"}
               PROVE  InSync'
    OBVIOUS
  <2>1. pc = "check" /\ quiet /\ UNCHANGED <<tree, srv>>
    BY QuietEnd
  <2>2. OwnInv /\ GivenInv
    BY <2>1 DEF AgreeInv
  <2>3. tree.srv[SrvAuth] = srv.own
    BY <2>1, <2>2 DEF OwnInv
  <2>4. ~Resynced(tree) => tree.cli[SrvAuth] = srv.given
    BY <2>1, <2>2 DEF GivenInv, Given
  <2>5. InSync
    BY <2>3, <2>4 DEF InSync, Resynced
  <2> QED
    BY <2>1, <2>5 DEF InSync
<1> QED
  BY <1>2, <1>3, <1>4, Invariance, PTL DEF Spec, NoncesAgree

----------------------------------------------------------------------------
(* The session implements ManagementSession.                               *)

USE DEF Session!Init, Session!Next, Session!vars

\* A session that returns, and one that dies.
LEMMA ReturnEnds ==
    ASSUME pc # "idle", NEW r \in {"none", "success", "fail"}, NEW t, Return(r, t)
    PROVE  Session!End
BY NewSessionTyped DEF Return, Session!End, Session!Results

LEMMA RetryEnds ==
    ASSUME pc = "exchange", Retry
    PROVE  Session!Next \/ UNCHANGED Session!vars
<1>1. CASE tries + 1 < MaxTries
  BY <1>1 DEF Retry
<1>2. CASE ~(tries + 1 < MaxTries)
  <2>1. Return("fail", tree)
    BY <1>2 DEF Retry
  <2> QED
    BY <2>1, ReturnEnds
<1> QED
  BY <1>1, <1>2

\* The counts that made it give up are counts of refusals in a row.
LEMMA GiveUpEnds == ASSUME IInv, GiveUp PROVE Session!End
<1>1. sess.srvRetry > MAX_AUTH_RETRY \/ sess.cliRetry > MAX_AUTH_RETRY
  BY DEF GiveUp, TooManyRetries
<1>2. refusals > MAX_AUTH_RETRY \/ sess.cliRetry > MAX_AUTH_RETRY
  BY <1>1 DEF IInv, TypeOK, RetryInv, Sessions
<1>3. pc = "check" /\ Return("auth_fail", tree)
  BY DEF GiveUp
<1> QED
  BY <1>2, <1>3, NewSessionTyped DEF Return, Session!End, Session!Results

\* A message of the server is accepted or refused.
LEMMA MessageRefines ==
    ASSUME IInv, ReceiveMessage
    PROVE  Session!Accept \/ Session!Refuse
<1>1. /\ pc = "loop" /\ pc' = "status" /\ executed' = FALSE /\ result' = result
      /\ sess'.cliRetry = sess.cliRetry /\ refusals < Many
      /\ refusals' = IF "server" \in sess'.auth THEN 0 ELSE refusals + 1
  BY ReceiveMessageStep DEF ReceiveMessage
<1>2. sess.cliRetry <= MAX_AUTH_RETRY
  BY <1>1 DEF IInv, RetryInv
<1>3. CASE "server" \in sess'.auth
  BY <1>1, <1>2, <1>3 DEF Session!Accept
<1>4. CASE "server" \notin sess'.auth
  BY SMTT(30), <1>1, <1>2, <1>4 DEF Session!Refuse
<1> QED
  BY <1>3, <1>4

LEMMA StatusRefines ==
    ASSUME IInv, NEW n \in Nonces, HandleStatus(n)
    PROVE  Session!Verdict
<1>1. /\ pc = "status" /\ pc' = "commands"
      /\ UNCHANGED <<refusals, executed, result>>
  BY DEF HandleStatus
<1>2. /\ "server" \in sess'.auth <=> "server" \in sess.auth
      /\ sess'.cliRetry \in {0, sess.cliRetry + 1, MAX_AUTH_RETRY + 1}
  BY HandleStatusStep
<1> QED
  BY SMTT(30), <1>1, <1>2 DEF Session!Verdict

LEMMA CommandsRefine ==
    ASSUME IInv, NEW abort \in BOOLEAN, NEW save \in BOOLEAN,
           HandleCommands(abort, save)
    PROVE  Session!Execute \/ UNCHANGED Session!vars
<1>1. /\ pc = "commands" /\ pc' = "check"
      /\ executed' = (answer.commands /\ "server" \in sess.auth)
      /\ sess' = [sess EXCEPT !.more = @ \/ answer.commands, !.aborted = abort]
      /\ UNCHANGED <<refusals, result>>
  BY DEF HandleCommands
<1>2. sess'.auth = sess.auth /\ sess'.cliRetry = sess.cliRetry
  BY <1>1 DEF IInv, TypeOK, Sessions
<1>3. ~executed
  BY <1>1 DEF IInv, RetryInv
<1>4. CASE executed'
  BY <1>1, <1>2, <1>4 DEF Session!Execute
<1>5. CASE ~executed'
  <2>1. executed = FALSE
    BY <1>3 DEF IInv, TypeOK
  <2>2. executed' = FALSE
    BY <1>1, <1>5
  <2> QED
    BY <1>1, <1>2, <2>1, <2>2
<1> QED
  BY <1>4, <1>5

\* A process that dies without a session changes nothing of the promise.
LEMMA CrashRefines ==
    ASSUME IInv, Crash
    PROVE  Session!End \/ UNCHANGED Session!vars
<1>1. /\ pc' = "idle" /\ result' = IF pc = "idle" THEN result ELSE "none"
      /\ sess' = NewSession /\ refusals' = 0 /\ executed' = FALSE
  BY DEF Crash
<1>2. CASE pc = "idle"
  <2>1. sess = NewSession /\ ~executed /\ refusals = 0
    BY <1>2 DEF IInv, RetryInv
  <2>2. executed = FALSE
    BY <2>1 DEF IInv, TypeOK
  <2> QED
    BY <1>1, <1>2, <2>1, <2>2
<1>3. CASE pc # "idle"
  BY <1>1, <1>3, NewSessionTyped DEF Session!End, Session!Results
<1> QED
  BY <1>2, <1>3

LEMMA StepRefines ==
    IInv /\ [Next]_vars => Session!Next \/ UNCHANGED Session!vars
<1> SUFFICES ASSUME IInv, [Next]_vars
             PROVE  Session!Next \/ UNCHANGED Session!vars
  OBVIOUS
<1>1. CASE Step
  <2>1. CASE SendPackage
    BY <2>1 DEF SendPackage
  <2>2. CASE LoseRequest
    BY <2>2, RetryEnds DEF LoseRequest
  <2>3. CASE HttpFails \/ LeaveCancelled \/ EndSession \/ ParseFails
    <3>1. pc # "idle"
          /\ \E r \in {"none", "success", "fail"}, t \in {tree, disk} : Return(r, t)
      BY <2>3 DEF HttpFails, LeaveCancelled, EndSession, ParseFails
    <3> QED
      BY <3>1, ReturnEnds
  <2>4. ASSUME pc = "exchange", NEW r \in Replies, NEW lost \in BOOLEAN,
               Exchange(r, lost)
        PROVE  Session!Next \/ UNCHANGED Session!vars
    <3>1. CASE lost
      BY <2>4, <3>1, RetryEnds DEF Exchange
    <3>2. CASE ~lost
      BY <2>4, <3>2 DEF Exchange
    <3> QED
      BY <3>1, <3>2
  <2>5. CASE ReceiveMessage
    BY <2>5, MessageRefines
  <2>6. ASSUME NEW n \in Nonces, HandleStatus(n) PROVE Session!Next
    BY <2>6, StatusRefines
  <2>7. ASSUME NEW abort \in BOOLEAN, NEW save \in BOOLEAN,
               HandleCommands(abort, save)
        PROVE  Session!Next \/ UNCHANGED Session!vars
    BY <2>7, CommandsRefine
  <2>8. CASE GiveUp
    BY <2>8, GiveUpEnds
  <2>9. CASE Continue
    BY <2>9 DEF Continue
  <2> QED
    BY <1>1, <2>1, <2>2, <2>3, <2>4, <2>5, <2>6, <2>7, <2>8, <2>9 DEF Step
<1>2. CASE StartSession
  BY <1>2, NewSessionTyped DEF StartSession, Session!Begin
<1>3. ASSUME NEW n \in Nonces, NEW lost \in BOOLEAN, Notify(n, lost)
      PROVE  UNCHANGED Session!vars
  BY <1>3 DEF Notify
<1>4. CASE Cancel
  BY <1>4 DEF Cancel
<1>5. CASE Crash
  BY <1>5, CrashRefines
<1>6. CASE UNCHANGED vars
  BY <1>6 DEF vars
<1> QED
  BY <1>1, <1>2, <1>3, <1>4, <1>5, <1>6 DEF Next

\* The session keeps the promises of ManagementSession for every server and
\* every network: commands are executed only while the server is trusted, it
\* is not refused more than Many times in a row, no message is taken of one
\* that rejected the client more than MAX_AUTH_RETRY times, and "auth_fail"
\* comes only after one side was refused more than MAX_AUTH_RETRY times in a row
\* (dmServerSession.cc:264-330).
THEOREM SessionRefinement == Spec => ImplementsManagementSession
<1>1. Init => Session!Init
  BY NewSessionTyped DEF Init
<1> QED
  BY <1>1, Invariance, StepRefines, PTL DEF Spec, Session!Spec,
     ImplementsManagementSession
=============================================================================
