--------------------------- MODULE ClaudeCodeAuth ---------------------------
(***************************************************************************)
(* The Claude Code OAuth credentials of create-magnitude-app               *)
(* (src/claudeCode.ts): completeClaudeCodeAuthFlow, which first tries      *)
(* getValidClaudeCodeAccessToken (load the credentials file, return the    *)
(* access token if it has a minute left, else refresh and save) and        *)
(* otherwise runs the browser login (exchange a pasted code, save).        *)
(*                                                                         *)
(* Several processes of the same user may run it at once: the file under   *)
(* ~/.magnitude is shared and nothing locks it.  A token pair is a number  *)
(* 1..issued in the order the server issued it.  The server rotates        *)
(* refresh tokens: a refresh spends the refresh token it is given, as the  *)
(* code expects when it stores the refresh_token of every response.        *)
(***************************************************************************)
EXTENDS Naturals, FiniteSets

CONSTANTS
    Callers,    \* processes running completeClaudeCodeAuthFlow
    Lifetime,   \* expires_in of an issued access token, in clock ticks
    Buffer,     \* the 60000 ms margin of the expiry check, in clock ticks
    MaxTime,    \* bound on the clock
    MaxIssued,  \* bound on the token pairs the server issues
    Faults,     \* subset of {"save"}: whether saveCredentials may throw
    Missing,    \* no credentials file
    Partial     \* a file writeFile has truncated and not yet completed

VARIABLES
    now,       \* Date.now()
    issued,    \* token pairs issued by the server so far
    expiresAt, \* expires_at of each issued pair
    spent,     \* pairs whose refresh token the server no longer accepts
    from,      \* the pair a pair was refreshed from (0 for a login)
    file,      \* contents of claudeCode.json
    pc,        \* where caller c is
    pair,      \* the pair caller c holds (loaded, or received)
    mode,      \* whose saveCredentials call caller c is in
    result     \* the access token caller c returned (0 for none)

vars == <<now, issued, expiresAt, spent, from, file, pc, pair, mode, result>>

Pairs == 1..MaxIssued

Pcs == {"idle", "refreshing", "login", "saving", "writing", "done", "failed"}

\* The file holds a pair the server would still refresh.
FileUsable == file \in Pairs /\ file \notin spent

Init ==
    /\ now = 0
    /\ \/ issued = 0 /\ file = Missing /\ expiresAt = [n \in Pairs |-> 0]
       \/ /\ issued = 1
          /\ file = 1
          /\ \E t \in 0..Lifetime : expiresAt = [n \in Pairs |-> t]
    /\ spent = {}
    /\ from = [n \in Pairs |-> 0]
    /\ pc = [c \in Callers |-> "idle"]
    /\ pair = [c \in Callers |-> 0]
    /\ mode = [c \in Callers |-> "refresh"]
    /\ result = [c \in Callers |-> 0]

Tick ==
    /\ now < MaxTime
    /\ now' = now + 1
    /\ UNCHANGED <<issued, expiresAt, spent, from, file, pc, pair, mode, result>>

\* The server issues pair issued + 1, expiring Lifetime from now.
Issue(parent) ==
    /\ issued < MaxIssued
    /\ issued' = issued + 1
    /\ expiresAt' = [expiresAt EXCEPT ![issued + 1] = now + Lifetime]
    /\ from' = [from EXCEPT ![issued + 1] = parent]

-----------------------------------------------------------------------------

\* getValidClaudeCodeAccessToken up to the refresh: loadCredentials (a
\* missing or unparsable file gives null, and the flow goes on to the
\* browser login), then the expiry check with its one-minute buffer.
Load(c) ==
    /\ pc[c] = "idle"
    /\ IF file \in {Missing, Partial}
       THEN pc' = [pc EXCEPT ![c] = "login"] /\ UNCHANGED <<pair, result>>
       ELSE IF expiresAt[file] > now + Buffer
       THEN /\ pc' = [pc EXCEPT ![c] = "done"]
            /\ result' = [result EXCEPT ![c] = file]
            /\ UNCHANGED pair
       ELSE /\ pc' = [pc EXCEPT ![c] = "refreshing"]
            /\ pair' = [pair EXCEPT ![c] = file]
            /\ UNCHANGED result
    /\ UNCHANGED <<now, issued, expiresAt, spent, from, file, mode>>

\* Mutant of Refresh: the new pair is returned without saveCredentials.
RefreshWithoutSave(c) ==
    /\ pc[c] = "refreshing"
    /\ pair[c] \notin spent
    /\ Issue(pair[c])
    /\ spent' = spent \cup {pair[c]}
    /\ pc' = [pc EXCEPT ![c] = "done"]
    /\ result' = [result EXCEPT ![c] = issued + 1]
    /\ UNCHANGED <<now, file, pair, mode>>

\* Mutant of Refresh: without the !response.ok check a refused refresh
\* yields credentials whose tokens are undefined (pair 0), and they are saved.
RefreshIgnoringStatus(c) ==
    /\ pc[c] = "refreshing"
    /\ IF pair[c] \in spent
       THEN /\ pc' = [pc EXCEPT ![c] = "saving"]
            /\ pair' = [pair EXCEPT ![c] = 0]
            /\ mode' = [mode EXCEPT ![c] = "refresh"]
            /\ UNCHANGED <<issued, expiresAt, spent, from>>
       ELSE /\ Issue(pair[c])
            /\ spent' = spent \cup {pair[c]}
            /\ pc' = [pc EXCEPT ![c] = "saving"]
            /\ pair' = [pair EXCEPT ![c] = issued + 1]
            /\ mode' = [mode EXCEPT ![c] = "refresh"]
    /\ UNCHANGED <<now, file, result>>

\* refreshAccessToken round trip.  A spent refresh token is refused
\* (!response.ok throws); the catch returns null and the flow goes on to
\* the browser login.
Refresh(c) ==
    /\ pc[c] = "refreshing"
    /\ IF pair[c] \in spent
       THEN /\ pc' = [pc EXCEPT ![c] = "login"]
            /\ UNCHANGED <<issued, expiresAt, spent, from, pair, mode>>
       ELSE /\ Issue(pair[c])
            /\ spent' = spent \cup {pair[c]}
            /\ pc' = [pc EXCEPT ![c] = "saving"]
            /\ pair' = [pair EXCEPT ![c] = issued + 1]
            /\ mode' = [mode EXCEPT ![c] = "refresh"]
    /\ UNCHANGED <<now, file, result>>

\* exchangeCodeForTokens: the server answers a good code with a fresh
\* pair, which the flow goes on to save; a bad code is refused
\* (!response.ok throws) and the flow throws.
ExchangeCodeForTokens(c) ==
    \/ /\ Issue(0)
       /\ pc' = [pc EXCEPT ![c] = "saving"]
       /\ pair' = [pair EXCEPT ![c] = issued + 1]
       /\ mode' = [mode EXCEPT ![c] = "login"]
    \/ /\ pc' = [pc EXCEPT ![c] = "failed"]
       /\ UNCHANGED <<issued, expiresAt, from, pair, mode>>

\* The rest of completeClaudeCodeAuthFlow: the user pastes a code, or
\* cancels and the flow throws, and the code is exchanged.
Login(c) ==
    /\ pc[c] = "login"
    /\ \/ ExchangeCodeForTokens(c)
       \/ /\ pc' = [pc EXCEPT ![c] = "failed"]
          /\ UNCHANGED <<issued, expiresAt, from, pair, mode>>
    /\ UNCHANGED <<now, spent, file, result>>

\* A throw inside saveCredentials: getValidClaudeCodeAccessToken's catch
\* returns null and the flow goes to the login; in the flow's own save
\* the error propagates.
SaveFailed(c) ==
    pc' = [pc EXCEPT ![c] = IF mode[c] = "refresh" THEN "login" ELSE "failed"]

\* saveCredentials: mkdir, then writeFile truncates the file ...
SaveBegin(c) ==
    /\ pc[c] = "saving"
    /\ \/ /\ file' = Partial
          /\ pc' = [pc EXCEPT ![c] = "writing"]
       \/ /\ "save" \in Faults
          /\ SaveFailed(c)
          /\ UNCHANGED file
    /\ UNCHANGED <<now, issued, expiresAt, spent, from, pair, mode, result>>

\* ... and completes; chmod follows, then the access token is returned.
\* A failed write leaves the file truncated; a failed chmod leaves it
\* written; either way the call throws.
SaveEnd(c) ==
    /\ pc[c] = "writing"
    /\ \/ /\ file' = pair[c]
          /\ pc' = [pc EXCEPT ![c] = "done"]
          /\ result' = [result EXCEPT ![c] = pair[c]]
       \/ /\ "save" \in Faults
          /\ file' \in {Partial, pair[c]}
          /\ SaveFailed(c)
          /\ UNCHANGED result
    /\ UNCHANGED <<now, issued, expiresAt, spent, from, pair, mode>>

Next ==
    \/ Tick
    \/ \E c \in Callers :
          Load(c) \/ Refresh(c) \/ Login(c) \/ SaveBegin(c) \/ SaveEnd(c)

Spec == Init /\ [][Next]_vars

-----------------------------------------------------------------------------
(* Properties                                                              *)

TypeOK ==
    /\ now \in 0..MaxTime
    /\ issued \in 0..MaxIssued
    /\ expiresAt \in [Pairs -> 0..(MaxTime + Lifetime)]
    /\ spent \subseteq 1..issued
    /\ from \in [Pairs -> 0..MaxIssued]
    /\ file \in {Missing, Partial} \cup 1..issued
    /\ pc \in [Callers -> Pcs]
    /\ pair \in [Callers -> 0..issued]
    /\ mode \in [Callers -> {"refresh", "login"}]
    /\ result \in [Callers -> 0..issued]

\* The stored credentials never go dead behind the user's back: if the
\* refresh token in the file has been spent, some caller of
\* getValidClaudeCodeAccessToken holds the pair it was rotated into and is
\* still on its way to saveCredentials.  This is about the refresh-then-
\* save sequence of lines 133-139 and its catch.
StoredPairLive ==
    file \in spent =>
        \E c \in Callers :
            /\ pc[c] \in {"saving", "writing"}
            /\ mode[c] = "refresh"
            /\ from[pair[c]] = file

\* completeClaudeCodeAuthFlow opens the browser login only when there is no
\* existing valid token to use (the comment at line 169): no caller steps
\* into the login while the file holds a pair the server would refresh.
NoNeedlessLogin ==
    [][\A c \in Callers : pc[c] # "login" /\ pc'[c] = "login" => ~FileUsable]_vars
=============================================================================
