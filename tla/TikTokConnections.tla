------------------------- MODULE TikTokConnections --------------------------
(***************************************************************************)
(* The connection of a TikTok destination: authorized by its owner,        *)
(* refreshed by beat and by operators before its token expires,            *)
(* disconnected.  Tokens are kept in an encrypted file beside the          *)
(* database, which holds a reference to them.                              *)
(*                                                                         *)
(* Source: refresh_tiktok_connection and disconnect_tiktok_connection of   *)
(* app/publishing/service.py, the OAuth endpoints of app/api.py,           *)
(* app/publishing/tiktok.py, EncryptedFileCredentialStore of               *)
(* app/publishing/credentials.py and refresh_tiktok_credentials of         *)
(* app/worker.py.                                                          *)
(*                                                                         *)
(* The store is read and written as a whole, under a lock that one process *)
(* has for itself: the API's handlers have one, each worker its own.       *)
(***************************************************************************)
EXTENDS CeleryWorkers

CONSTANT MaxTokens      \* bound: token sets that TikTok issues

ASSUME ConnectionsAssumption == MaxTokens \in Nat \ {0}

VARIABLES
    account,    \* the destination_accounts row
    connection, \* connection_state of its publishing_account_connections row
    store,      \* the file: the tokens under each reference, 0 for none
    tiktok,     \* the tokens issued, and those that were exchanged for others
    oauth       \* tiktok_oauth_states that were not consumed

connectionRows == <<account, connection, store, tiktok, oauth>>

(* Token sets are numbered as they are issued; a reference is named by the *)
(* tokens it was created for.                                              *)
Tokens == 1..MaxTokens
ConnectionStates == {"ABSENT", "CONNECTED", "DEGRADED", "DISCONNECTED"}
CredentialFile == [Tokens -> 0..MaxTokens]
NoFile == [t \in Tokens |-> 0]

(* spoilt is not the system's: an answer of TikTok's was lost, or a write  *)
(* of the file has undone another process's.                               *)
ConnectionsTypeOK ==
    /\ account \in [active : BOOLEAN, reference : 0..MaxTokens]
    /\ connection \in ConnectionStates
    /\ store \in CredentialFile
    /\ tiktok \in [issued : 0..MaxTokens, spent : SUBSET Tokens, spoilt : BOOLEAN]
    /\ oauth \in Nat

TokensMessage == [task |-> "refresh_tiktok_credentials"]

(* What a session has loaded: credential_reference_id, connection_state,   *)
(* the tokens it uses or has been given, and the file.                     *)
Connecting(op, place, message, reference) ==
    [op |-> op, at |-> place, message |-> message, reference |-> reference,
     state |-> connection, token |-> 0, file |-> NoFile]

ConnectionOps == {"TOKENS", "DISCONNECT", "AUTHORIZE", "CALLBACK"}
(* What they have in their sessions; only tokens are exchanged.            *)
ConnectionSessions ==
    {s \in [op : ConnectionOps,
            at : {"loaded", "exchanging", "revoking", "verifying", "recording",
                  "put", "drop", "touch", "putting", "dropping", "touching"},
            message : {NoMessage, TokensMessage}, reference : 0..MaxTokens,
            state : ConnectionStates, token : 0..MaxTokens, file : CredentialFile] :
        s.op = "TOKENS" /\ s.at = "exchanging" => s.token # 0}

-----------------------------------------------------------------------------
(* The row lock that a refresh holds until it commits; an UPDATE of the    *)
(* row waits for it.  (Mutant: without FOR UPDATE.)                        *)
NeverLocked == FALSE
RowLocked ==
    \E a \in Actors : session[a].op = "TOKENS" /\ session[a].at # "loaded"

(* A commit of connection_state.                                           *)
Records(a, state) == connection' = Updated(connection, session[a].state, state)
Degrade(a) == Records(a, "DEGRADED") /\ End(a)

SameProcess(a, b) == a = b \/ (a \in Operators /\ b \in Operators)

(* create, replace and delete: the file is read ... *)
OpenFile(a) ==
    LET s == session[a]
        Missing == s.op = "TOKENS" /\ store[s.reference] = 0
    IN
    /\ s.at \in {"put", "drop", "touch"}
    /\ \A b \in Actors : SameProcess(a, b) => session[b].at \notin {"putting", "dropping", "touching"}
    /\ IF Missing
       THEN Degrade(a)
       ELSE /\ session' = [session EXCEPT ![a].file = store,
                             ![a].at = [put |-> "putting", drop |-> "dropping",
                                        touch |-> "touching"][s.at]]
            /\ UNCHANGED connection
    /\ UNCHANGED <<account, store, tiktok, oauth, messages, lost, faults>>

(* ... and written.  What only creates or deletes a verifier touches it.   *)
InFile(s) ==
    CASE s.at = "putting" -> [s.file EXCEPT ![s.reference] = s.token]
      [] s.at = "dropping" -> [s.file EXCEPT ![s.reference] = 0]
      [] s.at = "touching" -> s.file

WriteFile(a) ==
    LET s == session[a]
        Next == [TOKENS |-> "recording", DISCONNECT |-> "recording", AUTHORIZE |-> "recording",
                 CALLBACK |-> [putting |-> "verifying", dropping |-> "recording",
                               touching |-> "exchanging"][s.at]][s.op]
    IN
    /\ s.at \in {"putting", "dropping", "touching"}
    /\ store' = InFile(s)
    /\ tiktok' = [tiktok EXCEPT !.spoilt = @ \/ store # s.file]
    /\ session' = [session EXCEPT ![a].at = Next, ![a].file = NoFile]
    /\ UNCHANGED <<account, connection, oauth, messages, lost, faults>>

-----------------------------------------------------------------------------
(* Refreshing: by beat when the token is about to expire, or by request.   *)

BeatTokens ==
    /\ messages' = Queued(TokensMessage)
    /\ UNCHANGED <<connectionRows, session, lost, faults>>

TakeTokens(w) ==
    /\ \E due \in BOOLEAN :
          Receive(w, TokensMessage,
                  Connecting("TOKENS", "loaded", TokensMessage,
                             IF due /\ account.active /\ connection = "CONNECTED"
                             THEN account.reference ELSE 0))
    /\ UNCHANGED connectionRows

AskForTokens(o) ==
    /\ Free(o)
    /\ Begin(o, Connecting("TOKENS", "loaded", NoMessage, account.reference))
    /\ UNCHANGED <<connectionRows, messages, lost, faults>>

NoRefresh(a) ==
    /\ At(a, "TOKENS", "loaded") /\ session[a].reference = 0
    /\ End(a)
    /\ UNCHANGED <<connectionRows, messages, lost, faults>>

(* The row is locked, but the account keeps the columns it was loaded with *)
(* before; then connection and tokens are read.                            *)
LockAccount(a) ==
    LET s == session[a] IN
    /\ At(a, "TOKENS", "loaded") /\ s.reference # 0
    /\ ~RowLocked
    /\ IF store[s.reference] = 0
       THEN connection' = "DEGRADED" /\ End(a)
       ELSE /\ session' = [session EXCEPT ![a].at = "exchanging", ![a].state = connection,
                                          ![a].token = store[s.reference]]
            /\ UNCHANGED connection
    /\ UNCHANGED <<account, store, tiktok, oauth, messages, lost, faults>>

(* TikTok gives other tokens for those it has not exchanged yet.           *)
ExchangeTokens(a) ==
    LET s == session[a] IN
    /\ At(a, "TOKENS", "exchanging")
    /\ s.token \notin tiktok.spent /\ tiktok.issued < MaxTokens
    /\ \/ /\ session' = [session EXCEPT ![a].at = "put", ![a].token = tiktok.issued + 1]
          /\ tiktok' = [tiktok EXCEPT !.issued = @ + 1, !.spent = @ \cup {s.token}]
          /\ UNCHANGED connection
       \/ /\ tiktok' = [tiktok EXCEPT !.spent = @ \cup {s.token}, !.spoilt = TRUE]
          /\ Degrade(a)
    /\ UNCHANGED <<account, store, oauth, messages, lost, faults>>

(* It refuses, or cannot be reached.                                       *)
ExchangeFails(a) ==
    /\ At(a, "TOKENS", "exchanging")
    /\ Degrade(a)
    /\ UNCHANGED <<account, store, tiktok, oauth, messages, lost, faults>>

RecordRefresh(a) ==
    /\ At(a, "TOKENS", "recording")
    /\ Records(a, "CONNECTED")
    /\ End(a)
    /\ UNCHANGED <<account, store, tiktok, oauth, messages, lost, faults>>

-----------------------------------------------------------------------------
(* Disconnecting: revoked at TikTok, deleted from the store, deactivated.  *)

CallDisconnect(o) ==
    /\ Free(o) /\ account.reference # 0
    /\ Begin(o, Connecting("DISCONNECT", "revoking", NoMessage, account.reference))
    /\ UNCHANGED <<connectionRows, messages, lost, faults>>

RevokeTokens(o) ==
    /\ At(o, "DISCONNECT", "revoking")
    /\ \/ Degrade(o)
       \/ store[session[o].reference] # 0 /\ Goto(o, "drop") /\ UNCHANGED connection
    /\ UNCHANGED <<account, store, tiktok, oauth, messages, lost, faults>>

RecordDisconnect(o) ==
    /\ At(o, "DISCONNECT", "recording")
    /\ ~RowLocked
    /\ account' = [account EXCEPT !.active = FALSE]
    /\ Records(o, "DISCONNECTED")
    /\ End(o)
    /\ UNCHANGED <<store, tiktok, oauth, messages, lost, faults>>

-----------------------------------------------------------------------------
(* Authorizing: a state with its verifier, and TikTok's callback for it.   *)
(* (TikTok takes the code of a callback once, so that two callbacks for    *)
(* one state come to no more than one.)                                    *)

CallAuthorize(o) ==
    /\ Free(o) /\ account.active
    /\ Begin(o, Connecting("AUTHORIZE", "touch", NoMessage, 0))
    /\ UNCHANGED <<connectionRows, messages, lost, faults>>

RecordState(o) ==
    /\ At(o, "AUTHORIZE", "recording")
    /\ oauth' = oauth + 1
    /\ End(o)
    /\ UNCHANGED <<account, connection, store, tiktok, messages, lost, faults>>

CallCallback(o) ==
    /\ Free(o) /\ oauth > 0
    /\ oauth' = oauth - 1
    /\ Begin(o, Connecting("CALLBACK", "touch", NoMessage, 0))
    /\ UNCHANGED <<account, connection, store, tiktok, messages, lost, faults>>

(* exchange_code; then account and connection are loaded.                  *)
ExchangeCode(o) ==
    /\ At(o, "CALLBACK", "exchanging")
    /\ \/ End(o) /\ UNCHANGED tiktok
       \/ /\ tiktok.issued < MaxTokens
          /\ tiktok' = [tiktok EXCEPT !.issued = @ + 1]
          /\ session' = [session EXCEPT ![o].at = "put", ![o].state = connection,
                           ![o].reference = tiktok.issued + 1, ![o].token = tiktok.issued + 1]
    /\ UNCHANGED <<account, connection, store, oauth, messages, lost, faults>>

(* verify_connection; when it fails the new credential is deleted again.   *)
VerifyConnection(o) ==
    /\ At(o, "CALLBACK", "verifying")
    /\ \/ Goto(o, "recording")
       \/ session' = [session EXCEPT ![o].at = "drop", ![o].token = 0]
    /\ UNCHANGED <<connectionRows, messages, lost, faults>>

(* Either way the account has the new reference.                           *)
RecordCallback(o) ==
    LET s == session[o] IN
    /\ At(o, "CALLBACK", "recording")
    /\ ~RowLocked
    /\ account' = [account EXCEPT !.reference = s.reference]
    /\ Records(o, IF s.token = 0 THEN "DEGRADED" ELSE "CONNECTED")
    /\ End(o)
    /\ UNCHANGED <<store, tiktok, oauth, messages, lost, faults>>

-----------------------------------------------------------------------------
ConnectionsInit ==
    /\ account = [active |-> TRUE, reference |-> 0]
    /\ connection = "ABSENT"
    /\ store = NoFile
    /\ tiktok = [issued |-> 0, spent |-> {}, spoilt |-> FALSE]
    /\ oauth = 0

ConnectionsHandler(o) ==
    \/ AskForTokens(o) \/ CallDisconnect(o) \/ RevokeTokens(o) \/ RecordDisconnect(o)
    \/ CallAuthorize(o) \/ RecordState(o)
    \/ CallCallback(o) \/ ExchangeCode(o) \/ VerifyConnection(o) \/ RecordCallback(o)

Connect(a) ==
    /\ session[a].op \in ConnectionOps
    /\ \/ OpenFile(a) \/ WriteFile(a)
       \/ NoRefresh(a) \/ LockAccount(a) \/ ExchangeTokens(a) \/ ExchangeFails(a)
       \/ RecordRefresh(a)

(* Refreshes, disconnections and authorizations that meet waste no token:  *)
(* none exchanges one that another has exchanged already, and when nobody  *)
(* is working on a connection that counts as CONNECTED, it has a reference *)
(* and what the store has under it is still good (nothing, where a failed  *)
(* authorization left its reference behind).  Not after a crash, a lost    *)
(* answer, or a write of the file that undid another's.                    *)
TokensAreGood ==
    faults = 0 /\ ~tiktok.spoilt =>
        /\ \A a \in Actors : At(a, "TOKENS", "exchanging") => session[a].token \notin tiktok.spent
        /\ connection = "CONNECTED" /\ (\A a \in Actors : session[a].op \notin ConnectionOps) =>
              account.reference # 0 /\ store[account.reference] \notin tiktok.spent
=============================================================================
