---------------------------- MODULE DMServerSession ----------------------------
(***************************************************************************)
(* A session with a management server: the package loop                    *)
(* (dmServerSession.cc), the authentication of both sides in its messages  *)
(* (dm_ua_handlecommand.cc), the credentials and their profiles in the     *)
(* tree (dmClientSrvCreds.cc, BuildPackage.cc), the authentication of      *)
(* notifications (dmServerAuthentication.cc) and the HTTP exchange with    *)
(* its retries (DMServiceConnection.cc, DMHttpConnector.java).             *)
(*                                                                         *)
(* The client is one thread; the network loses requests and answers, the   *)
(* process may die, and another thread may set g_cancelSession.  Both      *)
(* sides share the passwords and the tree is a DM 1.2 one; a credential is *)
(* its type and the nonce in it.  A message has one status for the header, *)
(* and its commands are one step: they count, are executed, abort or save  *)
(* (the end of an Atomic).  The statuses of the first package's commands,  *)
(* which make the client send them again, are left out, and so are the     *)
(* failures of the final save.                                             *)
(***************************************************************************)
EXTENDS Integers, FiniteSets

CONSTANTS
    Nonces,        \* numbers, enough of them for a fresh one (see Fresh)
    Resync,        \* SERVER_RESYNC_NONCE
    NoNonce,
    CliProfiles,   \* types of the client's profiles in the account
    SrvProfiles,   \* types of the server's profiles
    FirstCli,      \* the first client profile of the account
    NotifyProfile, \* the server profile that notifications are checked with
    SecurityLevel, \* SYNCML_DM_SECURITY_LEVEL
    Honest,        \* the server follows the protocol and keeps its nonces
    SrvAuth,       \* how an honest server authenticates itself at first
    Demand,        \* what an honest server demands of the client
    MaxTries,      \* DMTPT_MAX_RETRIES
    MaxSessions    \* bound: sessions, notifications

CHAL_UNDEFINED == -1
CHAL_NONE == 0
CHAL_BASIC == 1
CHAL_MD5 == 2
CHAL_HMAC == 3
MAX_AUTH_RETRY == 2
Many == MAX_AUTH_RETRY + 2 \* bound of the history of refusals

Types == {CHAL_BASIC, CHAL_MD5, CHAL_HMAC}

ASSUME NonceAssumption ==
    Nonces \subseteq Nat /\ Resync \in Nonces /\ NoNonce \notin Nonces
        /\ \E n \in Nonces : n # Resync
ASSUME ProfileAssumption ==
    /\ CliProfiles \subseteq Types /\ FirstCli \in CliProfiles
    /\ SrvProfiles \subseteq Types /\ NotifyProfile \in SrvProfiles
ASSUME LevelAssumption ==
    /\ SecurityLevel \in Types \cup {CHAL_NONE}
    /\ SrvAuth \in Types /\ Demand \in Types /\ Honest \in BOOLEAN
ASSUME BoundAssumption == MaxTries \in Nat \ {0} /\ MaxSessions \in Nat

VARIABLES
    pc,        \* where the session is
    creds,     \* DMClientServerCreds
    sess,      \* security state, retry counts, flags of the session
    req,       \* the request that is built or sent
    answer,    \* the answer that was received
    tries,     \* wNumRetries of the exchange
    tree, disk,     \* the account in the tree, and as it was last saved
    cancel,    \* g_cancelSession
    srv,       \* what the server remembers
    sessions,  \* bounded counter
    delivered, \* history: nonces that the server has been sent
    refusals,  \* history: messages refused in a row
    losses,    \* history: answers lost in this session, 3 for more
    quiet,     \* history: nothing was lost, cancelled, cut short or reset
    executed, result

history == <<delivered, refusals, losses, quiet>>
vars == <<pc, creds, sess, req, answer, tries, tree, disk, cancel, srv,
          sessions, history, executed, result>>

Nonces0 == Nonces \cup {NoNonce}
Accounts == [srv : [SrvProfiles -> Nonces], cli : [CliProfiles -> Nonces],
             pref : Types \cup {CHAL_NONE}]
Credentials ==
    [cliType : CHAL_UNDEFINED..CHAL_HMAC, \* AuthPrefCredType
     srvType : CHAL_UNDEFINED..CHAL_HMAC, \* ServerChalType
     cliURI : CliProfiles \cup {CHAL_NONE},
     srvURI : SrvProfiles \cup {CHAL_NONE},
     cliNonce : Nonces0, srvNonce : Nonces0,
     updated : BOOLEAN]                   \* m_bAuthPrefUpdated
Sessions ==
    [auth : SUBSET {"client", "server"},  \* m_nSecState
     srvRetry : 0..MAX_AUTH_RETRY + 1, cliRetry : 0..MAX_AUTH_RETRY + 1,
     missing : BOOLEAN,                   \* isServCredsMissing
     generated : BOOLEAN,                 \* bNonceGenerated
     more : BOOLEAN,                      \* commandCount # 0
     aborted : BOOLEAN]
Challenges == [type : Types \cup {CHAL_NONE}, nonce : Nonces0]
NoChallenge == [type |-> CHAL_NONE, nonce |-> NoNonce]
\* hmac is the nonce of the HMAC header, cred the credentials in the SyncHdr.
Requests == [hmac : Nonces0, cred : Challenges, chal : Challenges]
Answers == [hmac : Nonces0, cred : Challenges, chal : Challenges,
            status : {"ok", "unauthorized"}, commands : BOOLEAN]

NewCreds == [cliType |-> CHAL_UNDEFINED, srvType |-> CHAL_UNDEFINED,
             cliURI |-> CHAL_NONE, srvURI |-> CHAL_NONE,
             cliNonce |-> NoNonce, srvNonce |-> NoNonce, updated |-> FALSE]
NewSession == [auth |-> {}, srvRetry |-> 0, cliRetry |-> 0, missing |-> FALSE,
               generated |-> FALSE, more |-> FALSE, aborted |-> FALSE]
NoRequest == [hmac |-> NoNonce, cred |-> NoChallenge, chal |-> NoChallenge]
NoAnswer == [hmac |-> NoNonce, cred |-> NoChallenge, chal |-> NoChallenge,
             status |-> "ok", commands |-> FALSE]

----------------------------------------------------------------------------
\* DMClientServerCreds: profiles in the account t, credentials c.

\* Mutant: the nonce of the tree replaces the one in memory every time.
SetPrefServerAuthReload(c, t, type) ==
    LET p == CHOOSE q \in SrvProfiles : TRUE
    IN  [c EXCEPT !.srvType = p, !.srvURI = p, !.srvNonce = t.srv[p]]

\* SetPrefServerAuth: the first profile of this type or a stronger one.
SetPrefServerAuth(c, t, type) ==
    LET found == {p \in SrvProfiles : p >= type}
        p == CHOOSE q \in found : \A r \in found : q <= r
    IN  IF c.srvType = type THEN c
        ELSE IF type = CHAL_NONE THEN [c EXCEPT !.srvType = CHAL_NONE]
        ELSE IF found = {} THEN [c EXCEPT !.srvURI = CHAL_NONE]
        ELSE [c EXCEPT !.srvType = p, !.srvURI = p, !.srvNonce = t.srv[p]]

\* SetClientAuth with a profile p.  It looks up the server's profile of the
\* same type too, to see whether its nonce was reset.
UseClientProfile(c, t, p, type) ==
    [c EXCEPT !.cliType = type, !.cliURI = p,
              !.cliNonce = IF p \in SrvProfiles /\ t.srv[p] = Resync
                           THEN Resync ELSE t.cli[p],
              !.srvURI = IF p \in SrvProfiles THEN p ELSE CHAL_NONE,
              !.updated = c.cliType # CHAL_UNDEFINED \/ @]

\* An empty type, CHAL_NONE, finds the first profile.
HasProfile(type) == type = CHAL_NONE \/ type \in CliProfiles

SetPrefClientAuth(c, t, type) ==
    IF c.cliType = type THEN c
    ELSE IF type = CHAL_NONE THEN UseClientProfile(c, t, FirstCli, CHAL_NONE)
    ELSE IF type \in CliProfiles THEN UseClientProfile(c, t, type, type)
    ELSE [c EXCEPT !.cliURI = CHAL_NONE]

\* LoadInitialValues: the last type used or the default one, if there is a
\* profile of it, and otherwise the first profile.  The account has no
\* AAuthPref, which would come before the default.
LoadInitialValues(t) ==
    LET last == IF t.pref = CHAL_NONE THEN SecurityLevel ELSE t.pref
    IN  IF last = CHAL_NONE
        THEN UseClientProfile(NewCreds, t, FirstCli, CHAL_NONE)
        ELSE LET p == IF last \in CliProfiles THEN last ELSE FirstCli
             IN  UseClientProfile(NewCreds, t, p, p)

SaveServerNonce(c, t) ==
    IF c.srvURI = CHAL_NONE \/ c.srvNonce = NoNonce THEN t
    ELSE [t EXCEPT !.srv[c.srvURI] = c.srvNonce]

\* Mutant: the client's next nonce is kept in memory only.
SaveClientNonceNot(c, t, n) == t

SaveClientNonce(c, t, n) ==
    IF c.cliURI = CHAL_NONE THEN t ELSE [t EXCEPT !.cli[c.cliURI] = n]

\* BuildFinishSyncHdr: the credentials of the next request's header.
HeaderCred(c, type) ==
    IF type \in {CHAL_BASIC, CHAL_MD5}
    THEN [type |-> type, nonce |-> IF type = CHAL_MD5 THEN c.cliNonce
                                   ELSE NoNonce]
    ELSE NoChallenge

----------------------------------------------------------------------------
SrvNoncesInUse ==
    {tree.srv[p] : p \in SrvProfiles} \cup {disk.srv[p] : p \in SrvProfiles}
        \cup {srv.own, creds.srvNonce, req.chal.nonce,
              answer.hmac, answer.cred.nonce, Resync}
CliNoncesInUse ==
    {tree.cli[p] : p \in CliProfiles} \cup {disk.cli[p] : p \in CliProfiles}
        \cup {srv.given, creds.cliNonce, req.hmac, req.cred.nonce,
              answer.chal.nonce, Resync}

\* A nonce that nobody has: syncmldm_sec_generate_nonce does not repeat one.
\* Which one it is makes no difference.
Fresh(used) == {n \in Nonces \ used : \A k \in Nonces \ used : n <= k}

FirstNonce == CHOOSE n \in Nonces : n # Resync

Init ==
    /\ pc = "idle"
    /\ creds = NewCreds /\ sess = NewSession
    /\ req = NoRequest /\ answer = NoAnswer /\ tries = 0
    /\ tree = [srv |-> [p \in SrvProfiles |-> FirstNonce],
               cli |-> [p \in CliProfiles |-> FirstNonce],
               pref |-> CHAL_NONE]
    /\ disk = tree
    /\ cancel = FALSE
    /\ srv = [own |-> FirstNonce, given |-> FirstNonce, type |-> SrvAuth,
              known |-> FALSE]
    /\ sessions = 0
    /\ delivered = {FirstNonce} /\ refusals = 0 /\ losses = 0 /\ quiet = TRUE
    /\ executed = FALSE /\ result = "none"

\* A session of a new package 0, or one that the client begins by itself:
\* BuildPackageOne with the stored credentials.
StartSession ==
    /\ pc = "idle" /\ sessions < MaxSessions
    /\ LET c == LoadInitialValues(tree)
       IN  /\ creds' = c
           /\ req' = [NoRequest EXCEPT !.cred = HeaderCred(c, c.cliType)]
    /\ pc' = "send" /\ sess' = NewSession /\ answer' = NoAnswer
    /\ cancel' = FALSE /\ sessions' = sessions + 1
    /\ srv' = [srv EXCEPT !.known = FALSE, !.type = SrvAuth]
    /\ refusals' = 0 /\ losses' = 0 /\ quiet' = TRUE
    /\ executed' = FALSE /\ result' = "none"
    /\ UNCHANGED <<tries, tree, disk, delivered>>

\* The server sends a notification with the nonce it has, or asks for new
\* nonces with the resynchronization one; it may get lost.  AuthenticateServer
\* tries one profile: the first that is checked and fails ends the attempt.
Notify(n, lost) ==
    /\ pc = "idle" /\ sessions < MaxSessions
    /\ n \in {srv.own, Resync}
    /\ srv' = IF n = Resync THEN [srv EXCEPT !.own = n, !.given = n] ELSE srv
    /\ tree' = IF ~lost /\ n = Resync /\ tree.srv[NotifyProfile] # n
               THEN [tree EXCEPT !.srv[NotifyProfile] = Resync] ELSE tree
    /\ quiet' = FALSE /\ sessions' = sessions + 1
    /\ UNCHANGED <<pc, creds, sess, req, answer, tries, disk, cancel,
                   delivered, refusals, losses, executed, result>>

\* The session returns r: its lock context is released, which saves the tree t.
Return(r, t) ==
    /\ pc' = "idle" /\ result' = r
    /\ tree' = t /\ disk' = t
    /\ creds' = NewCreds /\ sess' = NewSession
    /\ req' = NoRequest /\ answer' = NoAnswer /\ tries' = 0
    /\ refusals' = 0 /\ executed' = FALSE

\* Mutant: a cancel is forgotten when a package is sent.
SendPackageClears ==
    /\ pc = "send"
    /\ req' = [req EXCEPT !.hmac = IF creds.cliType = CHAL_HMAC
                                   THEN creds.cliNonce ELSE NoNonce]
    /\ tries' = 0 /\ pc' = "exchange" /\ cancel' = FALSE
    /\ UNCHANGED <<creds, sess, answer, tree, disk, srv, sessions,
                   history, executed, result>>

\* SendPackage: the HMAC of the client's current type and nonce.
SendPackage ==
    /\ pc = "send"
    /\ req' = [req EXCEPT !.hmac = IF creds.cliType = CHAL_HMAC
                                   THEN creds.cliNonce ELSE NoNonce]
    /\ tries' = 0 /\ pc' = "exchange"
    /\ UNCHANGED <<creds, sess, answer, tree, disk, cancel, srv, sessions,
                   history, executed, result>>

\* Mutant: one try more.
RetryOnceMore ==
    /\ quiet' = FALSE
    /\ IF tries + 1 <= MaxTries
       THEN /\ tries' = tries + 1
            /\ UNCHANGED <<pc, creds, sess, req, answer, tree, disk,
                           refusals, executed, result>>
       ELSE Return("fail", tree)

\* What the transport does of an exchange that failed: the same request again,
\* or the end of the session.
Retry ==
    /\ quiet' = FALSE
    /\ IF tries + 1 < MaxTries
       THEN /\ tries' = tries + 1
            /\ UNCHANGED <<pc, creds, sess, req, answer, tree, disk,
                           refusals, executed, result>>
       ELSE Return("fail", tree)

LoseRequest ==
    /\ pc = "exchange" /\ Retry
    /\ UNCHANGED <<cancel, srv, sessions, delivered, losses>>

\* A response other than 200, or one whose length does not fit.
HttpFails ==
    /\ pc = "exchange" /\ Return("fail", tree) /\ quiet' = FALSE
    /\ UNCHANGED <<cancel, srv, sessions, delivered, losses>>

----------------------------------------------------------------------------
\* The server.  An honest one answers the client's challenge, knows the client
\* by the right nonce of the type it demands (and, unless that is HMAC, for the
\* rest of the session), and gives it a new nonce at will.
SentType(q) == IF q.hmac # NoNonce THEN CHAL_HMAC ELSE q.cred.type
SentNonce(q) == IF q.hmac # NoNonce THEN q.hmac ELSE q.cred.nonce

Credential(type, n) ==
    IF type = CHAL_NONE THEN NoChallenge
    ELSE [type |-> type, nonce |-> IF type = CHAL_BASIC THEN NoNonce ELSE n]

HonestReplies ==
    LET own == IF req.chal.type >= CHAL_MD5 THEN req.chal.nonce ELSE srv.own
        type == IF req.chal.type # CHAL_NONE THEN req.chal.type ELSE srv.type
        right == /\ SentType(req) >= Demand
                 /\ SentType(req) = CHAL_BASIC \/ SentNonce(req) = srv.given
        known == right \/ (srv.known /\ Demand # CHAL_HMAC)
    IN  {[server |-> [own |-> own, type |-> type, known |-> known,
                      given |-> IF chal # CHAL_NONE THEN next ELSE srv.given],
          reply |-> [hmac |-> IF type = CHAL_HMAC THEN own ELSE NoNonce,
                     cred |-> IF type = CHAL_HMAC THEN NoChallenge
                              ELSE Credential(type, own),
                     chal |-> IF chal = CHAL_NONE THEN NoChallenge
                              ELSE [type |-> chal, nonce |-> next],
                     status |-> IF known THEN "ok" ELSE "unauthorized",
                     commands |-> commands]] :
         next \in Fresh(CliNoncesInUse),
         chal \in IF known THEN {CHAL_NONE, Demand} ELSE {Demand},
         commands \in BOOLEAN}

\* Any other server: one credential, right or wrong, any verdict and challenge;
\* the client's nonce that it repeats has no part in what it answers.
OtherReplies ==
    LET nonces == {creds.srvNonce, Resync} \ {NoNonce}
        creds0 == {NoChallenge} \cup [type : {CHAL_MD5}, nonce : nonces]
                      \cup [type : {CHAL_BASIC}, nonce : {NoNonce, Resync}]
    IN  {[server |-> srv,
          reply |-> [hmac |-> c[1], cred |-> c[2], chal |-> chal,
                     status |-> status, commands |-> commands]] :
         c \in (nonces \X {NoChallenge}) \cup ({NoNonce} \X creds0),
         chal \in {NoChallenge, [type |-> CHAL_BASIC, nonce |-> NoNonce]}
             \cup [type : {CHAL_MD5, CHAL_HMAC}, nonce : {FirstNonce, NoNonce}],
         status \in {"ok", "unauthorized"},
         commands \in BOOLEAN}

Replies == IF Honest THEN HonestReplies ELSE OtherReplies

\* The server has the request.  The answer arrives, or is lost and the
\* transport sends the same request again.
Exchange(r, lost) ==
    /\ srv' = r.server
    /\ delivered' = (delivered \cap SrvNoncesInUse)
                      \cup ({req.chal.nonce} \ {NoNonce})
    /\ IF lost
       THEN /\ Retry
            /\ losses' = IF losses < 3 THEN losses + 1 ELSE losses
       ELSE /\ answer' = r.reply /\ pc' = "loop"
            /\ UNCHANGED <<creds, sess, req, tries, tree, disk, refusals,
                           losses, quiet, executed, result>>
    /\ UNCHANGED <<cancel, sessions>>

----------------------------------------------------------------------------
\* The loop of Start, and the callbacks of ParseMessage.

\* while ( bMoreMessage && g_cancelSession == 0 )
LeaveCancelled ==
    /\ pc = "loop" /\ cancel
    /\ Return("success", tree)
    /\ UNCHANGED <<cancel, srv, sessions, delivered, losses, quiet>>

Authorize(m, ok) ==
    [m EXCEPT !.auth = IF ok THEN @ \cup {"server"} ELSE @ \ {"server"}]

\* Mutant: a message without credentials is not counted.
RecvPackageUncounted(c, m) ==
    LET c1 == SetPrefServerAuth(c, tree, CHAL_HMAC)
        ok == answer.hmac = c1.srvNonce
    IN  IF answer.hmac # NoNonce
        THEN <<c1, [Authorize(m, ok) EXCEPT
                        !.missing = FALSE,
                        !.srvRetry = IF ok THEN 0 ELSE @ + 1]>>
        ELSE <<c, [m EXCEPT !.missing = "server" \notin m.auth]>>

\* RecvPackage: the HMAC of the HTTP header.
RecvPackage(c, m) ==
    LET c1 == SetPrefServerAuth(c, tree, CHAL_HMAC)
        ok == answer.hmac = c1.srvNonce
    IN  IF answer.hmac # NoNonce
        THEN <<c1, [Authorize(m, ok) EXCEPT
                        !.missing = FALSE,
                        !.srvRetry = IF ok THEN 0 ELSE @ + 1]>>
        ELSE <<c, IF "server" \in m.auth THEN [m EXCEPT !.srvRetry = 0]
                  ELSE [m EXCEPT !.missing = TRUE, !.srvRetry = @ + 1]>>

\* CheckAuthorization: the credentials in the SyncHdr.
CheckAuthorization(c, m) ==
    LET c0 == IF c.srvType <= CHAL_NONE
              THEN SetPrefServerAuth(c, tree, SecurityLevel) ELSE c
        m0 == IF c0.srvType = CHAL_NONE THEN Authorize(m, TRUE) ELSE m
        c1 == SetPrefServerAuth(c0, tree, answer.cred.type)
        right == IF answer.cred.type = CHAL_BASIC
                 THEN NoNonce ELSE c1.srvNonce
    IN  IF \/ c0.srvType = CHAL_HMAC
           \/ answer.cred.type = CHAL_NONE
           \/ answer.cred.type < c0.srvType
        THEN <<c0, m0>>
        ELSE <<c1, Authorize(m0, answer.cred.nonce = right)>>

\* RecvPackage, ParseMessage and HandleStartMessage.
ReceiveMessage ==
    /\ pc = "loop" /\ ~cancel
    /\ LET r == RecvPackage(creds, [sess EXCEPT !.more = FALSE])
           a == CheckAuthorization(r[1], r[2])
           ok == "server" \in a[2].auth
       IN  /\ creds' = a[1]
           /\ sess' = IF ok THEN [a[2] EXCEPT !.srvRetry = 0] ELSE a[2]
           /\ refusals' = IF ok THEN 0 ELSE IF refusals <= Many THEN refusals + 1
                          ELSE refusals
    /\ executed' = FALSE /\ pc' = "status"
    /\ UNCHANGED <<req, answer, tries, tree, disk, cancel, srv, sessions,
                   delivered, losses, quiet, result>>

\* HandleStatusCommand for the SyncHdr: the nonce generated for the last
\* request is saved now that its answer is here; then the server's verdict on
\* the client, its challenge with the client's next nonce, the credentials of
\* the next request (BuildFinishSyncHdr), and a challenge of the server with a
\* new nonce in memory only.
HandleStatus(n) ==
    LET ok == answer.status = "ok"
        chal == answer.chal
        t0 == IF sess.generated THEN SaveServerNonce(creds, tree) ELSE tree
        t1 == IF ok /\ creds.updated THEN [t0 EXCEPT !.pref = creds.cliType]
              ELSE t0
        c1 == IF ok THEN [creds EXCEPT !.updated = FALSE] ELSE creds
        c2 == IF chal.type = CHAL_NONE THEN c1
              ELSE SetPrefClientAuth(c1, t1, chal.type)
        given == chal.type # CHAL_NONE /\ chal.nonce # NoNonce
        t2 == IF given THEN SaveClientNonce(c2, t1, chal.nonce) ELSE t1
        c3 == IF given THEN [c2 EXCEPT !.cliNonce = chal.nonce] ELSE c2
        c4 == SetPrefClientAuth(c3, t2, chal.type)
        auth == IF ok THEN sess.auth \cup {"client"}
                ELSE sess.auth \ {"client"}
        trusted == "server" \in sess.auth
        new == ~trusted /\ c4.srvType > CHAL_BASIC
        c5 == IF new THEN [c4 EXCEPT !.srvNonce = n] ELSE c4
    IN  /\ pc = "status"
        /\ n \in Fresh(SrvNoncesInUse)
        /\ creds' = c5 /\ tree' = t2
        /\ sess' = [sess EXCEPT
               !.auth = auth, !.generated = new,
               !.more = @ \/ (chal.type # CHAL_NONE /\ ~ok),
               !.cliRetry = IF chal.type # CHAL_NONE /\ ~HasProfile(chal.type)
                                /\ c1.cliType # chal.type
                            THEN MAX_AUTH_RETRY + 1
                            ELSE IF ok THEN 0 ELSE @ + 1]
        /\ req' = [hmac |-> NoNonce, cred |-> HeaderCred(c4, chal.type),
                   chal |-> IF trusted /\ c5.srvType < CHAL_MD5
                            THEN NoChallenge
                            ELSE IF c5.srvType >= CHAL_MD5
                            THEN [type |-> c5.srvType, nonce |-> c5.srvNonce]
                            ELSE Credential(CHAL_BASIC, NoNonce)]
        /\ delivered' = IF new THEN delivered \ {n} ELSE delivered
        /\ answer' = [NoAnswer EXCEPT !.commands = answer.commands]
        /\ pc' = "commands"
        /\ UNCHANGED <<tries, disk, cancel, srv, sessions, refusals,
                       losses, quiet, executed, result>>

\* Mutant: the authorization is not tested.
HandleCommandsOfAnyone(abort, save) ==
    /\ pc = "commands"
    /\ abort \/ save => answer.commands
    /\ sess' = [sess EXCEPT !.more = @ \/ answer.commands, !.aborted = abort]
    /\ executed' = answer.commands
    /\ disk' = IF save THEN tree ELSE disk
    /\ pc' = "check" /\ answer' = NoAnswer
    /\ UNCHANGED <<creds, req, tries, tree, cancel, srv, sessions,
                   history, result>>

\* The commands of the message: counted always, executed if the server is
\* authorized; one may abort the session, the end of an Atomic saves the tree.
HandleCommands(abort, save) ==
    /\ pc = "commands"
    /\ abort \/ save => answer.commands /\ "server" \in sess.auth
    /\ sess' = [sess EXCEPT !.more = @ \/ answer.commands, !.aborted = abort]
    /\ executed' = (answer.commands /\ "server" \in sess.auth)
    /\ disk' = IF save THEN tree ELSE disk
    /\ pc' = "check" /\ answer' = NoAnswer
    /\ UNCHANGED <<creds, req, tries, tree, cancel, srv, sessions,
                   history, result>>

\* A message that cannot be parsed, is not of this session, or whose status is
\* 407: everything since the last save is rolled back, unless it is the header
\* that fails.
ParseFails ==
    /\ \/ pc \in {"status", "commands"} /\ Return("fail", disk)
       \/ pc = "status" /\ Return("fail", tree)
    /\ quiet' = FALSE
    /\ UNCHANGED <<cancel, srv, sessions, delivered, losses>>

\* The end of the loop's body: the third refusal in a row of one side ends the
\* session, one more than dmServerSession.h:44 says ("According to spec, we
\* should only have two attempts to access the server").
TooManyRetries ==
    sess.srvRetry > MAX_AUTH_RETRY \/ sess.cliRetry > MAX_AUTH_RETRY

GiveUp ==
    /\ pc = "check" /\ TooManyRetries /\ Return("auth_fail", tree)
    /\ UNCHANGED <<cancel, srv, sessions, delivered, losses, quiet>>

Continue ==
    /\ pc = "check" /\ ~TooManyRetries
    /\ sess.more /\ ~sess.aborted /\ ~cancel
    /\ pc' = "send"
    /\ UNCHANGED <<creds, sess, req, answer, tries, tree, disk, cancel, srv,
                   sessions, history, executed, result>>

\* Mutant: the postponed nonce is saved when the session ends.
EndSessionSaves ==
    /\ pc = "check" /\ ~TooManyRetries
    /\ ~sess.more \/ sess.aborted \/ cancel
    /\ Return("success", SaveServerNonce(creds, tree))
    /\ UNCHANGED <<cancel, srv, sessions, delivered, losses, quiet>>

EndSession ==
    /\ pc = "check" /\ ~TooManyRetries
    /\ ~sess.more \/ sess.aborted \/ cancel
    /\ Return("success", tree)
    /\ UNCHANGED <<cancel, srv, sessions, delivered, losses, quiet>>

----------------------------------------------------------------------------
\* cancelSession, from another thread.
Cancel ==
    /\ ~cancel /\ pc # "idle"
    /\ cancel' = TRUE /\ quiet' = FALSE
    /\ UNCHANGED <<pc, creds, sess, req, answer, tries, tree, disk, srv,
                   sessions, delivered, refusals, losses, executed, result>>

\* The process dies; what was not saved is lost.
Crash ==
    /\ tree # disk \/ pc # "idle"
    /\ pc' = "idle" /\ result' = IF pc = "idle" THEN result ELSE "none"
    /\ tree' = disk /\ quiet' = FALSE
    /\ creds' = NewCreds /\ sess' = NewSession
    /\ req' = NoRequest /\ answer' = NoAnswer /\ tries' = 0
    /\ refusals' = 0 /\ executed' = FALSE
    /\ UNCHANGED <<disk, cancel, srv, sessions, delivered, losses>>

Step ==
    \/ SendPackage \/ LoseRequest \/ HttpFails
    \/ pc = "exchange" /\ \E r \in Replies, lost \in BOOLEAN : Exchange(r, lost)
    \/ LeaveCancelled \/ ReceiveMessage
    \/ pc = "status" /\ \E n \in Nonces : HandleStatus(n)
    \/ \E abort, save \in BOOLEAN : HandleCommands(abort, save)
    \/ ParseFails \/ GiveUp \/ Continue \/ EndSession

Next ==
    \/ StartSession
    \/ \E n \in Nonces, lost \in BOOLEAN : Notify(n, lost)
    \/ Step \/ Cancel \/ Crash

Spec == Init /\ [][Next]_vars

\* The session's thread runs; the network gives up by itself (MaxTries).
FairSpec == Spec /\ WF_vars(Step)

----------------------------------------------------------------------------
TypeOK ==
    /\ pc \in {"idle", "send", "exchange", "loop", "status", "commands",
               "check"}
    /\ creds \in Credentials /\ sess \in Sessions
    /\ req \in Requests /\ answer \in Answers /\ tries \in 0..MaxTries - 1
    /\ tree \in Accounts /\ disk \in Accounts
    /\ cancel \in BOOLEAN
    /\ srv \in [own : Nonces, given : Nonces, type : Types, known : BOOLEAN]
    /\ sessions \in 0..MaxSessions
    /\ delivered \subseteq Nonces /\ refusals \in 0..Many
    /\ losses \in 0..3 /\ quiet \in BOOLEAN
    /\ executed \in BOOLEAN
    /\ result \in {"none", "success", "fail", "auth_fail"}

\* A nonce for the server is written to the tree only when the server has been
\* sent it, whatever is lost, cancelled or rolled back (HandleStatusCommand
\* postpones it, dm_ua_handlecommand.cc:2513-2525 and 2695-2700).
StoredNonceDelivered ==
    \A p \in SrvProfiles : {tree.srv[p], disk.srv[p]}
                               \subseteq delivered \cup {Resync}

\* An honest server, with profiles of its types in the account, is refused at
\* most once in a session, and the client is rejected in a row only once more
\* than answers were lost: neither side comes to AUTH_FAIL by stale nonces
\* alone (dmServerSession.cc:305).
HonestSidesRecover ==
    Honest => sess.srvRetry <= 1 /\ sess.cliRetry <= 1 + losses

\* After an undisturbed session that ended with both sides authenticated, both
\* have the same nonces stored, so that the next one starts without a refusal;
\* except after a resynchronization (README, section 6).
InSync == \/ tree.srv[SrvAuth] = Resync
          \/ tree.srv[SrvAuth] = srv.own /\ tree.cli[Demand] = srv.given
NoncesAgree ==
    [][(pc # "idle" /\ pc' = "idle" /\ quiet'
            /\ sess.auth = {"client", "server"}) => InSync']_vars

\* The session keeps the promises of ManagementSession: commands only for a
\* trusted server, refusals bounded, "auth_fail" only after too many of them
\* (dmServerSession.cc:264-330).  The numbers are the code's: a session survives
\* two refusals of a side and gives up at the third, where the comment at
\* dmServerSession.h:44 allows two attempts.
Session == INSTANCE ManagementSession
    WITH Tolerated <- MAX_AUTH_RETRY,
         Limit <- Many,
         open <- pc # "idle",
         trusted <- "server" \in sess.auth,
         rejected <- sess.cliRetry
ImplementsManagementSession == Session!Spec

\* A cancelled session ends (dmServerSession.cc:264, 312).
CancelEnds == (cancel /\ pc # "idle") ~> pc = "idle"

\* A session ends unless the server gets authenticated
\* (dmServerSession.cc:305-309, 323-327).
StrangersLeave == (pc # "idle") ~> (pc = "idle" \/ "server" \in sess.auth)
=============================================================================
