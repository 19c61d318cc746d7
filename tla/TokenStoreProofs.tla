-------------------------- MODULE TokenStoreProofs --------------------------
(***************************************************************************)
(* What holds of tokens while one process at a time has the store open,    *)
(* for any number of processes and tokens: tokens.json is always whole and *)
(* says what the commands reported.                                        *)
(***************************************************************************)
EXTENDS TokenStore, TLAPS

\* A process that is not running holds nothing; one that is between two changes
\* is not in a flush; a descriptor is open only between truncating and writing.
LocalOK ==
    \A p \in Procs :
        /\ ~up[p] => mem[p] = {} /\ job[p] = "none"
        /\ job[p] = "none" <=> step[p] = "none"
        /\ step[p] # "write" => fd[p] = "none"
        /\ job[p] # "none" => id[p] \in Tokens

\* The one process that is up has the temporary file to itself.
FlushOK ==
    /\ \A p, q \in Procs : up[p] /\ up[q] => p = q
    /\ \A p \in Procs : /\ step[p] = "write" => fd[p] = "tmp" /\ tmp = Empty
                        /\ step[p] = "rename" => tmp = mem[p]

\* The ids of a list have been given out; the list has what was issued and not
\* asked to be revoked, and nothing that was revoked.
Reported(list) ==
    /\ \A t \in list : t < next
    /\ revoked \cap list = {}
    /\ issued \ asked \subseteq list

TokensOK ==
    /\ file \notin {Empty, Garbled}
    /\ Reported(Parsed(file))
    /\ revoked \subseteq asked
    /\ \A t \in asked : t < next
    /\ \A p \in Procs : /\ up[p] => Reported(mem[p])
                        /\ job[p] = "issue" => id[p] \in mem[p]
                        /\ job[p] = "revoke" => id[p] \in asked \ mem[p]

TokenInv == TypeOK /\ LocalOK /\ (alone => FlushOK /\ TokensOK)

USE TokensAssumption, CanFailAssumption, ContentsAssumption

LEMMA TokenInit == Init => TokenInv
<1> SUFFICES ASSUME Init PROVE TokenInv
    OBVIOUS
<1>1. TypeOK
    BY DEF Init, TypeOK, Contents, Tokens
<1>2. LocalOK
    BY DEF Init, LocalOK
<1>3. FlushOK
    BY DEF Init, FlushOK
<1>4. TokensOK
    BY DEF Init, TokensOK, Parsed, Reported
<1> QED
    BY <1>1, <1>2, <1>3, <1>4 DEF TokenInv

\* A list of tokens is read back as it was written.
LEMMA ParsedList == ASSUME NEW list \in SUBSET Tokens PROVE Parsed(list) = list
    BY DEF Parsed

LEMMA ParsedType == ASSUME NEW content \in Contents PROVE Parsed(content) \in SUBSET Tokens
    BY DEF Parsed, Contents

LEMMA OpenInv == ASSUME TokenInv, NEW p \in Procs, Open(p) PROVE TokenInv'
<1> USE DEF TokenInv
<1>1. Parsed(file) \in SUBSET Tokens
    BY ParsedType DEF TypeOK
<1>2. TypeOK'
    BY <1>1 DEF Open, Watch, TypeOK
<1>3. LocalOK'
    BY DEF Open, LocalOK, TypeOK
<1>4. ASSUME alone' PROVE FlushOK' /\ TokensOK'
    <2>1. alone /\ (\A q \in Procs : ~up[q]) /\ UNCHANGED <<issued, asked, revoked>>
        BY <1>4 DEF Open, Watch
    <2>2. /\ file' = file /\ tmp' = tmp /\ next' = next
          /\ UNCHANGED <<job, id, step, fd>>
          /\ up' = [up EXCEPT ![p] = TRUE] /\ mem' = [mem EXCEPT ![p] = Parsed(file)]
        BY DEF Open
    <2>3. FlushOK'
        BY <2>1, <2>2 DEF FlushOK, LocalOK, TypeOK
    <2>4. TokensOK'
        BY <2>1, <2>2 DEF TokensOK, Reported, Parsed, LocalOK, TypeOK
    <2> QED
        BY <2>3, <2>4
<1> QED
    BY <1>2, <1>3, <1>4

LEMMA IssueInv == ASSUME TokenInv, NEW p \in Procs, Issue(p) PROVE TokenInv'
<1>0. /\ up[p] /\ job[p] = "none" /\ next \in Tokens /\ next' = next + 1
      /\ mem' = [mem EXCEPT ![p] = mem[p] \cup {next}]
      /\ job' = [job EXCEPT ![p] = "issue"]
      /\ id' = [id EXCEPT ![p] = next]
      /\ step' = [step EXCEPT ![p] = "open"]
      /\ UNCHANGED <<file, tmp, up, fd, pending, issued, asked, revoked, alone>>
    BY DEF Issue, Unlocked, StartFlush, TokenInv, TypeOK, Tokens
<1>1. TypeOK'
    BY <1>0 DEF TokenInv, TypeOK, Tokens
<1>2. LocalOK'
    BY <1>0 DEF TokenInv, LocalOK, TypeOK
<1>3. alone => FlushOK'
    BY <1>0 DEF TokenInv, FlushOK, LocalOK, TypeOK
<1>4. ASSUME alone PROVE TokensOK'
    <2>0. TokensOK /\ TypeOK /\ up[p]
        BY <1>0, <1>4 DEF TokenInv
    <2>1. /\ \A t \in Parsed(file) \cup mem[p] \cup asked : t \in Nat /\ t < next
          /\ next \in Nat /\ next \notin revoked
        <3>1. Parsed(file) \subseteq Tokens /\ mem[p] \subseteq Tokens /\ asked \subseteq Tokens
            BY <2>0, ParsedType DEF TypeOK
        <3>2. /\ \A t \in Parsed(file) \cup mem[p] \cup asked : t < next
              /\ revoked \subseteq asked
            BY <2>0 DEF TokensOK, Reported
        <3>3. next \in Nat
            BY <2>0 DEF TypeOK
        <3>4. \A t \in Tokens : t \in Nat
            BY DEF Tokens
        <3>5. next \notin revoked
            BY <3>2, <3>3
        <3> QED
            BY <3>1, <3>2, <3>3, <3>4, <3>5
    <2>2. \A q \in Procs : up[q] => q = p
        BY <1>0, <1>4 DEF TokenInv, FlushOK
    <2>3. Reported(Parsed(file)) /\ Reported(mem[p])
        BY <1>0, <1>4 DEF TokenInv, TokensOK
    <2>4. Parsed(file') = Parsed(file) /\ mem'[p] = mem[p] \cup {next}
        BY <1>0 DEF TokenInv, TypeOK, Parsed
    <2>5. Reported(Parsed(file))' /\ Reported(mem[p])'
        <3>1. /\ next' = next + 1 /\ revoked' = revoked /\ issued' = issued /\ asked' = asked
              /\ file' = file
            BY <1>0
        <3>2. \A t \in Parsed(file) \cup mem[p] \cup {next} : t < next + 1
            BY <2>1
        <3> QED
            BY <2>1, <2>3, <2>4, <3>1, <3>2 DEF Reported
    <2>6. \A q \in Procs : q # p => ~up[q] /\ job[q] = "none" /\ job'[q] = job[q]
        BY <1>0, <2>2 DEF TokenInv, LocalOK
    <2>7. job'[p] = "issue" /\ id'[p] \in mem'[p]
        BY <1>0, <2>4 DEF TokenInv, TypeOK
    <2>8. \A t \in asked : t < next + 1
        BY <2>1
    <2>9. \A q \in Procs : /\ (up[q] => Reported(mem[q]))'
                           /\ job'[q] = "issue" => id'[q] \in mem'[q]
                           /\ job'[q] # "revoke"
        BY <1>0, <2>5, <2>6, <2>7
    <2> QED
        BY <1>0, <2>0, <2>5, <2>8, <2>9 DEF TokensOK
<1> QED
    BY <1>0, <1>1, <1>2, <1>3, <1>4 DEF TokenInv

LEMMA RevokeInv ==
    ASSUME TokenInv, NEW p \in Procs, NEW t \in Tokens, Revoke(p, t) PROVE TokenInv'
<1> USE DEF TokenInv, Revoke, Unlocked, StartFlush, Noted
<1>1. TypeOK'
    BY DEF TypeOK, Tokens
<1>2. LocalOK'
    BY DEF LocalOK, TypeOK
<1>3. alone => FlushOK'
    BY DEF FlushOK, LocalOK, TypeOK
<1>4. ASSUME alone PROVE TokensOK'
    <2>1. Reported(Parsed(file))'
        BY <1>4 DEF TokensOK, Reported, Parsed, TypeOK
    <2>2. \A q \in Procs : up[q] => q = p
        BY <1>4 DEF FlushOK
    <2>3. Reported(mem[p])' /\ t < next
        BY <1>4 DEF TokensOK, Reported, TypeOK
    <2> QED
        BY <1>4, <2>1, <2>2, <2>3 DEF TokensOK, TypeOK, LocalOK
<1> QED
    BY <1>1, <1>2, <1>3, <1>4

LEMMA VerifyInv ==
    ASSUME TokenInv, NEW p \in Procs, NEW t \in Tokens, Verify(p, t) PROVE TokenInv'
<1> USE DEF TokenInv, Verify, ghost
<1>1. TypeOK'
    BY DEF TypeOK
<1>2. LocalOK' /\ (alone => FlushOK')
    BY DEF LocalOK, FlushOK
<1>3. alone => TokensOK'
    BY DEF TokensOK, Reported, Parsed
<1> QED
    BY <1>1, <1>2, <1>3

LEMMA TouchInv ==
    ASSUME TokenInv, NEW p \in Procs, NEW t \in Tokens, Touch(p, t) PROVE TokenInv'
<1> USE DEF TokenInv, Touch, Unlocked, StartFlush, ghost
<1>1. TypeOK'
    BY DEF TypeOK, Tokens
<1>2. LocalOK'
    BY DEF LocalOK, TypeOK
<1>3. alone => FlushOK'
    BY DEF FlushOK, LocalOK, TypeOK
<1>4. alone => TokensOK'
    BY DEF TokensOK, Reported, Parsed, TypeOK
<1> QED
    BY <1>1, <1>2, <1>3, <1>4

LEMMA FlushOpenInv == ASSUME TokenInv, NEW p \in Procs, FlushOpen(p) PROVE TokenInv'
<1> USE DEF TokenInv, FlushOpen, ghost
<1>1. TypeOK'
    BY DEF TypeOK, Contents
<1>2. LocalOK'
    BY DEF LocalOK, TypeOK
<1>3. alone => FlushOK'
    BY DEF FlushOK, LocalOK, TypeOK
<1>4. alone => TokensOK'
    BY DEF TokensOK, Reported, Parsed
<1> QED
    BY <1>1, <1>2, <1>3, <1>4

LEMMA FlushWriteInv == ASSUME TokenInv, NEW p \in Procs, FlushWrite(p) PROVE TokenInv'
<1> USE DEF TokenInv
<1>1. file' \in Contents /\ tmp' \in Contents
    BY DEF FlushWrite, Overwritten, TypeOK, Contents
<1>2. TypeOK'
    BY <1>1 DEF FlushWrite, ghost, TypeOK
<1>3. LocalOK'
    BY DEF FlushWrite, LocalOK, TypeOK
<1>4. ASSUME alone PROVE file' = file /\ tmp' = mem[p]
    BY <1>4 DEF FlushWrite, FlushOK, Overwritten
<1>5. alone => FlushOK'
    BY <1>4 DEF FlushWrite, FlushOK, LocalOK, TypeOK
<1>6. alone => TokensOK'
    BY <1>4 DEF FlushWrite, ghost, TokensOK, Reported, Parsed
<1> QED
    BY <1>2, <1>3, <1>5, <1>6 DEF FlushWrite, ghost

LEMMA FlushRenameInv == ASSUME TokenInv, NEW p \in Procs, FlushRename(p) PROVE TokenInv'
<1> USE DEF TokenInv
<1>1. TypeOK'
    <2>1. tmp' \in Contents /\ file' \in Contents
        BY DEF FlushRename, TypeOK, Contents
    <2>2. fd' \in [Procs -> {"none", "tmp", "file", "gone"}]
        BY DEF FlushRename, Renamed, TypeOK
    <2>3. id[p] \in Tokens
        BY DEF FlushRename, LocalOK, TypeOK
    <2>4. issued' \subseteq Tokens /\ revoked' \subseteq Tokens
        BY <2>3 DEF FlushRename, Noted, TypeOK
    <2> QED
        BY <2>1, <2>2, <2>4 DEF FlushRename, Finish, TypeOK
<1>2. LocalOK'
    BY DEF FlushRename, Finish, Renamed, LocalOK, TypeOK
<1>3. \A q \in Procs : alone /\ up[q] => q = p
    BY DEF FlushRename, FlushOK, LocalOK
<1>4. alone => FlushOK'
    BY <1>3 DEF FlushRename, Finish, FlushOK, LocalOK, TypeOK
<1>5. ASSUME alone PROVE TokensOK'
    <2>1. file' = mem[p] /\ mem[p] \in SUBSET Tokens /\ up[p]
        BY <1>5 DEF FlushRename, FlushOK, LocalOK, TypeOK
    <2>2. Parsed(file') = mem[p] /\ file' \notin {Empty, Garbled}
        BY <2>1, ParsedList
    <2>3. Reported(mem[p])' /\ revoked' \subseteq asked
        <3>1. Reported(mem[p]) /\ revoked \subseteq asked
            BY <1>5, <2>1 DEF TokensOK
        <3>2. /\ mem' = mem /\ next' = next /\ asked' = asked
              /\ issued' = IF job[p] = "issue" THEN issued \cup {id[p]} ELSE issued
              /\ revoked' = IF job[p] = "revoke" THEN revoked \cup {id[p]} ELSE revoked
            BY <1>5 DEF FlushRename, Noted
        <3>3. CASE job[p] = "issue"
            BY <1>5, <3>1, <3>2, <3>3 DEF TokensOK, Reported
        <3>4. CASE job[p] = "revoke"
            BY <1>5, <3>1, <3>2, <3>4 DEF TokensOK, Reported
        <3>5. CASE job[p] \notin {"issue", "revoke"}
            BY <3>1, <3>2, <3>5 DEF Reported
        <3> QED
            BY <3>3, <3>4, <3>5
    <2>4. \A q \in Procs : /\ job'[q] = "issue" => id'[q] \in mem'[q]
                           /\ job'[q] = "revoke" => id'[q] \in asked' \ mem'[q]
        BY <1>5 DEF FlushRename, Finish, TokensOK, TypeOK
    <2> QED
        BY <1>3, <1>5, <2>1, <2>2, <2>3, <2>4 DEF FlushRename, TokensOK, Reported
<1> QED
    BY <1>1, <1>2, <1>4, <1>5 DEF FlushRename

LEMMA AbandonInv ==
    ASSUME TokenInv, NEW p \in Procs, step[p] # "none", Abandon(p) PROVE TokenInv'
<1> USE DEF TokenInv, Abandon, Finish, ghost
<1>1. TypeOK'
    BY DEF TypeOK
<1>2. LocalOK'
    BY DEF LocalOK, TypeOK
<1>3. alone => FlushOK'
    BY DEF FlushOK, LocalOK, TypeOK
<1>4. alone => TokensOK'
    BY DEF TokensOK, Reported, Parsed, TypeOK
<1> QED
    BY <1>1, <1>2, <1>3, <1>4

LEMMA ExitInv == ASSUME TokenInv, NEW p \in Procs, Exit(p) PROVE TokenInv'
<1> USE DEF TokenInv, Exit, Finish, ghost
<1>1. TypeOK'
    BY DEF TypeOK
<1>2. LocalOK'
    BY DEF LocalOK, TypeOK
<1>3. alone => FlushOK'
    BY DEF FlushOK, LocalOK, TypeOK
<1>4. alone => TokensOK'
    BY DEF TokensOK, Reported, Parsed, TypeOK
<1> QED
    BY <1>1, <1>2, <1>3, <1>4

LEMMA TokenStep == TokenInv /\ [Next]_vars => TokenInv'
<1> SUFFICES ASSUME TokenInv, [Next]_vars PROVE TokenInv'
    OBVIOUS
<1>1. CASE UNCHANGED vars
    BY <1>1 DEF vars, TokenInv, TypeOK, LocalOK, FlushOK, TokensOK, Reported, Parsed
<1>2. CASE Next
    <2> PICK p \in Procs :
            \/ Open(p) \/ Issue(p) \/ Exit(p)
            \/ \E t \in Tokens : Revoke(p, t) \/ Verify(p, t) \/ Touch(p, t)
            \/ Flush(p) \/ FlushFails(p)
        BY <1>2 DEF Next
    <2>1. CASE Flush(p)
        BY <2>1, FlushOpenInv, FlushWriteInv, FlushRenameInv, AbandonInv DEF Flush, RenameMissing
    <2>2. CASE FlushFails(p)
        BY <2>2, AbandonInv DEF FlushFails
    <2> QED
        BY <2>1, <2>2, OpenInv, IssueInv, ExitInv, RevokeInv, VerifyInv, TouchInv
<1> QED
    BY <1>1, <1>2

LEMMA TokenAlways == Spec => []TokenInv
    BY TokenInit, TokenStep, PTL DEF Spec

\* Revoke and Issue (tokens.go): what a command reported of a token is what the
\* file says, through failed flushes, late touches, kills and restarts, as long as
\* one process at a time has the store open.
THEOREM Truthful == Spec => []TokensTrue
<1>1. TokenInv => TokensTrue
    BY DEF TokenInv, TokensTrue, TokensOK, Reported, RevokedGone, IssuedKept
<1> QED
    BY <1>1, TokenAlways, PTL

\* flushLocked (tokens.go): whatever step the process dies in, tokens.json is whole.
THEOREM Whole == Spec => []FileWhole
<1>1. TokenInv => FileWhole
    BY DEF TokenInv, TokensOK, FileWhole
<1> QED
    BY <1>1, TokenAlways, PTL

=============================================================================
