----------------------------- MODULE TokenStore -----------------------------
(***************************************************************************)
(* The bearer tokens of internal/auth/tokens.go: a list in memory, guarded *)
(* by a mutex, and tokens.json on disk, which every change rewrites from   *)
(* memory through tokens.json.tmp.  Every coggo process that opens the     *)
(* data directory (the server, and each `coggo token' command) has its own *)
(* list, read once by Open; the mutex does not reach across processes, and *)
(* they all use the same temporary file.                                   *)
(*                                                                         *)
(* A token is its id; labels, hashes and LastUsedAt are left out, but not  *)
(* the rewriting of the file that recording LastUsedAt causes.             *)
(***************************************************************************)
EXTENDS Naturals

CONSTANTS
    Procs,      \* processes that open the data directory
    MaxTokens,  \* bound: how many tokens are issued
    CanFail,    \* whether a file operation may return an error
    Absent,     \* no such file
    Empty,      \* the file has been truncated and not yet written
    Garbled     \* the bytes of two writers mixed: not JSON

ASSUME TokensAssumption == MaxTokens \in Nat
ASSUME CanFailAssumption == CanFail \in BOOLEAN

Tokens == 1 .. MaxTokens

ASSUME ContentsAssumption ==
    /\ \A list \in SUBSET Tokens : list \notin {Absent, Empty, Garbled}
    /\ Absent # Empty /\ Empty # Garbled /\ Garbled # Absent

Contents == {Absent, Empty, Garbled} \cup SUBSET Tokens

VARIABLES
    file,       \* tokens.json
    tmp,        \* tokens.json.tmp
    up,         \* up[p]: process p runs and has opened the store
    mem,        \* mem[p]: p's Store.tokens
    job,        \* job[p]: the change whose flush p's mutex protects
    id,         \* id[p]: the token job[p] is about
    step,       \* step[p]: the next file operation of that flush
    fd,         \* fd[p]: the file p's open descriptor now names
    pending,    \* pending[p]: tokens whose touch goroutine has yet to run
    next,       \* the next token id
    issued,     \* tokens Issue returned to a caller
    asked,      \* tokens some caller asked Revoke to remove
    revoked,    \* tokens Revoke reported removed
    alone       \* ghost: no process opened the store while another had it open

local == <<up, mem, job, id, step, fd, pending>>
ghost == <<next, issued, asked, revoked, alone>>
vars == <<file, tmp, up, mem, job, id, step, fd, pending, next, issued, asked, revoked, alone>>

TypeOK ==
    /\ file \in Contents
    /\ tmp \in Contents
    /\ up \in [Procs -> BOOLEAN]
    /\ mem \in [Procs -> SUBSET Tokens]
    /\ job \in [Procs -> {"none", "issue", "revoke", "touch"}]
    /\ id \in [Procs -> 0 .. MaxTokens]
    /\ step \in [Procs -> {"none", "open", "write", "rename"}]
    /\ fd \in [Procs -> {"none", "tmp", "file", "gone"}]
    /\ pending \in [Procs -> SUBSET Tokens]
    /\ next \in 1 .. MaxTokens + 1
    /\ issued \subseteq Tokens
    /\ asked \subseteq Tokens
    /\ revoked \subseteq Tokens
    /\ alone \in BOOLEAN

Init ==
    /\ file = Absent
    /\ tmp = Absent
    /\ up = [p \in Procs |-> FALSE]
    /\ mem = [p \in Procs |-> {}]
    /\ job = [p \in Procs |-> "none"]
    /\ id = [p \in Procs |-> 0]
    /\ step = [p \in Procs |-> "none"]
    /\ fd = [p \in Procs |-> "none"]
    /\ pending = [p \in Procs |-> {}]
    /\ next = 1
    /\ issued = {} /\ asked = {} /\ revoked = {}
    /\ alone = TRUE

-----------------------------------------------------------------------------
\* The tokens Open finds in a file: none, or one of no bytes, is an empty store.
Parsed(content) == IF content \in {Absent, Empty, Garbled} THEN {} ELSE content

\* A second process opens the store: from here on nothing is claimed of tokens.
Watch ==
    /\ alone' = (alone /\ \A q \in Procs : ~up[q])
    /\ IF alone' THEN UNCHANGED <<issued, asked, revoked>>
                 ELSE issued' = {} /\ asked' = {} /\ revoked' = {}

Noted(set, t) == IF alone THEN set \cup {t} ELSE set

\* Mutant: the file on disk is not read.
OpenForgets(p) ==
    /\ ~up[p]
    /\ up' = [up EXCEPT ![p] = TRUE]
    /\ Watch
    /\ UNCHANGED <<file, tmp, mem, job, id, step, fd, pending, next>>

\* Open: a file that does not parse is an error, and the process gives up.
Open(p) ==
    /\ ~up[p]
    /\ file # Garbled
    /\ up' = [up EXCEPT ![p] = TRUE]
    /\ mem' = [mem EXCEPT ![p] = Parsed(file)]
    /\ Watch
    /\ UNCHANGED <<file, tmp, job, id, step, fd, pending, next>>

\* p holds the write lock from here until its flush is over.
Unlocked(p) == up[p] /\ job[p] = "none"

StartFlush(p, kind, t) ==
    /\ job' = [job EXCEPT ![p] = kind]
    /\ id' = [id EXCEPT ![p] = t]
    /\ step' = [step EXCEPT ![p] = "open"]

\* Mutant: the id is one ahead.
IssueAhead(p) ==
    /\ Unlocked(p)
    /\ next <= MaxTokens
    /\ mem' = [mem EXCEPT ![p] = @ \cup {next + 1}]
    /\ next' = next + 1
    /\ StartFlush(p, "issue", next)
    /\ UNCHANGED <<file, tmp, up, fd, pending, issued, asked, revoked, alone>>

\* Issue: the new token joins the list, and the list is flushed.
Issue(p) ==
    /\ Unlocked(p)
    /\ next <= MaxTokens
    /\ mem' = [mem EXCEPT ![p] = @ \cup {next}]
    /\ next' = next + 1
    /\ StartFlush(p, "issue", next)
    /\ UNCHANGED <<file, tmp, up, fd, pending, issued, asked, revoked, alone>>

\* Revoke: the token leaves the list, and the list is flushed.  An id that is
\* not in the list is an error and changes nothing.
Revoke(p, t) ==
    /\ Unlocked(p)
    /\ t \in mem[p]
    /\ mem' = [mem EXCEPT ![p] = @ \ {t}]
    /\ asked' = Noted(asked, t)
    /\ StartFlush(p, "revoke", t)
    /\ UNCHANGED <<file, tmp, up, fd, pending, next, issued, revoked, alone>>

\* Verify: the secret's token is in the list; `go s.touch(match.ID)'.  It reads the
\* list under the read lock and uses only what it found there afterwards: a token's
\* id and scope never change.  That touch may run much later is what `pending' is for.
Verify(p, t) ==
    /\ Unlocked(p)
    /\ t \in mem[p]
    /\ pending' = [pending EXCEPT ![p] = @ \cup {t}]
    /\ UNCHANGED <<file, tmp, up, mem, job, id, step, fd, ghost>>

\* Mutant: touch puts back the token that Verify matched.
TouchBlindly(p, t) ==
    /\ Unlocked(p)
    /\ t \in pending[p]
    /\ pending' = [pending EXCEPT ![p] = @ \ {t}]
    /\ mem' = [mem EXCEPT ![p] = @ \cup {t}]
    /\ StartFlush(p, "touch", t)
    /\ UNCHANGED <<file, tmp, up, fd, ghost>>

\* touch: look the id up again and, if it is still there, flush the list.
Touch(p, t) ==
    /\ Unlocked(p)
    /\ t \in pending[p]
    /\ pending' = [pending EXCEPT ![p] = @ \ {t}]
    /\ \/ /\ t \in mem[p]
          /\ StartFlush(p, "touch", t)
       \/ /\ t \notin mem[p]
          /\ UNCHANGED <<job, id, step>>
    /\ UNCHANGED <<file, tmp, up, mem, fd, ghost>>

-----------------------------------------------------------------------------
(***************************************************************************)
(* flushLocked: os.WriteFile(tmp) truncates, then writes; os.Rename puts   *)
(* whatever is now called tmp in the place of the file.                    *)
(***************************************************************************)
\* Mutant: tokens.json is written in place.
FlushOpenInPlace(p) ==
    /\ step[p] = "open"
    /\ file' = Empty
    /\ fd' = [fd EXCEPT ![p] = "file"]
    /\ step' = [step EXCEPT ![p] = "write"]
    /\ UNCHANGED <<tmp, up, mem, job, id, pending, ghost>>

FlushOpen(p) ==
    /\ step[p] = "open"
    /\ tmp' = Empty
    /\ fd' = [fd EXCEPT ![p] = "tmp"]
    /\ step' = [step EXCEPT ![p] = "write"]
    /\ UNCHANGED <<file, up, mem, job, id, pending, ghost>>

\* Writing `new' at the start of a file that holds `old'.
Overwritten(old, new) ==
    IF old \in {Empty, new} THEN {new} ELSE {new, Garbled}

FlushWrite(p) ==
    /\ step[p] = "write"
    /\ \/ /\ fd[p] = "tmp"
          /\ tmp' \in Overwritten(tmp, mem[p])
          /\ UNCHANGED file
       \/ /\ fd[p] = "file"
          /\ file' \in Overwritten(file, mem[p])
          /\ UNCHANGED tmp
       \/ /\ fd[p] = "gone"
          /\ UNCHANGED <<file, tmp>>
    /\ fd' = [fd EXCEPT ![p] = "none"]
    /\ step' = [step EXCEPT ![p] = "rename"]
    /\ UNCHANGED <<up, mem, job, id, pending, ghost>>

\* The operation returns and releases the mutex.
Finish(p) ==
    /\ job' = [job EXCEPT ![p] = "none"]
    /\ id' = [id EXCEPT ![p] = 0]
    /\ step' = [step EXCEPT ![p] = "none"]

\* Descriptors follow the file they opened, whatever it is called now.
Renamed(q) ==
    IF fd[q] = "tmp" THEN "file" ELSE IF fd[q] = "file" THEN "gone" ELSE fd[q]

FlushRename(p) ==
    /\ step[p] = "rename"
    /\ tmp # Absent
    /\ file' = tmp
    /\ tmp' = Absent
    /\ fd' = [q \in Procs |-> Renamed(q)]
    /\ issued' = IF job[p] = "issue" THEN Noted(issued, id[p]) ELSE issued
    /\ revoked' = IF job[p] = "revoke" THEN Noted(revoked, id[p]) ELSE revoked
    /\ Finish(p)
    /\ UNCHANGED <<up, mem, pending, next, asked, alone>>

\* An error ends the flush: the list keeps the change, the caller gets the
\* error (touch ignores it).
Abandon(p) ==
    /\ fd' = [fd EXCEPT ![p] = "none"]
    /\ Finish(p)
    /\ UNCHANGED <<file, tmp, up, mem, pending, ghost>>

FlushFails(p) ==
    /\ CanFail
    /\ step[p] # "none"
    /\ Abandon(p)

\* Mutant: a rename that finds no file is tried again.
RenameRetried(p) ==
    /\ step[p] = "rename"
    /\ tmp = Absent
    /\ step' = [step EXCEPT ![p] = "open"]
    /\ UNCHANGED <<file, tmp, up, mem, job, id, fd, pending, ghost>>

\* Another process renamed the temporary file away: os.Rename is an error.
RenameMissing(p) ==
    /\ step[p] = "rename"
    /\ tmp = Absent
    /\ Abandon(p)

\* The process ends: a command that is done, a server stopped, or a crash.
Exit(p) ==
    /\ up[p]
    /\ up' = [up EXCEPT ![p] = FALSE]
    /\ mem' = [mem EXCEPT ![p] = {}]
    /\ pending' = [pending EXCEPT ![p] = {}]
    /\ fd' = [fd EXCEPT ![p] = "none"]
    /\ Finish(p)
    /\ UNCHANGED <<file, tmp, ghost>>

Flush(p) == FlushOpen(p) \/ FlushWrite(p) \/ FlushRename(p) \/ RenameMissing(p)

Next ==
    \E p \in Procs :
        \/ Open(p) \/ Issue(p) \/ Exit(p)
        \/ \E t \in Tokens : Revoke(p, t) \/ Verify(p, t) \/ Touch(p, t)
        \/ Flush(p) \/ FlushFails(p)

Spec == Init /\ [][Next]_vars

\* A goroutine inside flushLocked runs on: its file operations return, with or
\* without an error of their own, which nothing has to bring about.
FairSpec == Spec /\ \A p \in Procs : WF_vars(Flush(p))

-----------------------------------------------------------------------------
(***************************************************************************)
(* Properties.                                                             *)
(***************************************************************************)

\* "Revoke removes the token with the given ID and flushes to disk"
\* (tokens.go): a token reported revoked is not in tokens.json, however many
\* touch goroutines, failed flushes and restarts follow, as long as one process
\* at a time has the store open.
RevokedGone == alone => revoked \cap Parsed(file) = {}

\* A token whose secret was handed out, and that nobody asked to revoke, is in
\* tokens.json: no later rewrite of the file by the one process drops it.
IssuedKept == alone => issued \ asked \subseteq Parsed(file)

\* Both, and the types of the state: what the commands reported of tokens is what
\* tokens.json says.
TokensTrue == TypeOK /\ RevokedGone /\ IssuedKept

\* Whatever step a process dies in, tokens.json is a whole list: truncated or
\* mixed bytes only ever sit in the temporary file, unless two processes share it.
FileWhole == alone => file \notin {Empty, Garbled}

\* Whatever other processes do to the temporary file they share, a flush ends
\* and its mutex is released: Verify, which waits for it, is not shut out.
LockReleased == \A p \in Procs : job[p] # "none" ~> job[p] = "none"

=============================================================================
