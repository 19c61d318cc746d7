----------------------------- MODULE McpServer -----------------------------
(***************************************************************************)
(* A coggo server answers tool calls (internal/mcp) while commands change  *)
(* the peers and the tokens it works from.                                 *)
(*                                                                         *)
(* The server reads peers.json and then tokens.json, once, in Setup.  A    *)
(* call names peers, by name or DID, and bears a token; for each peer it   *)
(* resolves the peer, verifies the token for the peer's *name* and routes  *)
(* a message to the peer's *DID*.  A tool about one peer is a cross-peer   *)
(* query of one entry: its error is the tool error.  The server also       *)
(* writes tokens.json, from its own copy, whenever a token was used.       *)
(*                                                                         *)
(* A command is one step here; PeerRegistry and TokenStore have the steps  *)
(* of their file operations and of two commands at once.  A token is its   *)
(* number and stands for its secret; the payloads of messages, which       *)
(* Substrate has, are left out.                                            *)
(***************************************************************************)
EXTENDS Naturals, Sequences

CONSTANTS
    Calls,      \* request goroutines, one call at a time each
    Names,      \* peer names
    MaxPeers,   \* bound: how many key pairs are made
    MaxTokens,  \* bound: how many tokens are issued
    MaxAsked,   \* bound: how many peers one call names
    CanFail,    \* whether a peer's handler may answer with an error
    Star,       \* the wildcard scope
    NotString,  \* an entry of `peers' that is not a string
    None        \* no such peer; no such token

ASSUME BoundsAssumption == MaxPeers \in Nat /\ MaxTokens \in Nat /\ MaxAsked \in Nat \ {0}
ASSUME CanFailAssumption == CanFail \in BOOLEAN

DIDs == 1 .. MaxPeers
Tokens == 1 .. MaxTokens

\* Token.Peers: names, or the wildcard that --all stands for.
Scopes == {{Star}} \cup (SUBSET Names \ {{}})

\* What a client may write for a peer.
Targets == Names \cup DIDs \cup {NotString}

ASSUME DistinctAssumption ==
    /\ Names \cap DIDs = {}
    /\ {Star, NotString, None} \cap (Names \cup DIDs) = {}
    /\ NotString # None
    /\ \A scope \in Scopes : scope # None

VARIABLES
    peersFile,  \* peers.json: the name of each DID in it
    tokensFile, \* tokens.json: the scope of each token in it
    phase,      \* the server: "down", "opening" (peers read), "up"
    reg,        \* its registry
    toks,       \* its tokens
    touches,    \* tokens whose touch goroutine has yet to run
    pc,         \* where each call is
    bearer,     \* the token the call presents; 0: none, or an unknown one
    asked,      \* the peers it names
    did,        \* the peer it has been authorised for
    out,        \* the results so far, one per peer
    nextPeer, nextToken,
    granted,    \* granted[t]: the peers whose names t was issued for
    freed,      \* names a rename has given up
    retired     \* tokens revoked while no server had read them

files == <<peersFile, tokensFile>>
server == <<phase, reg, toks, touches>>
call == <<pc, bearer, asked, did, out>>
ghost == <<nextPeer, nextToken, granted, freed, retired>>
vars == <<peersFile, tokensFile, phase, reg, toks, touches, pc, bearer, asked, did, out,
          nextPeer, nextToken, granted, freed, retired>>

Denied == [kind |-> "denied", did |-> None]
Failed == [kind |-> "failed", did |-> None]
Data(d) == [kind |-> "data", did |-> d]
Results == {Denied, Failed} \cup {Data(d) : d \in DIDs}

TypeOK ==
    /\ peersFile \in [DIDs -> Names \cup {None}]
    /\ tokensFile \in [Tokens -> {None} \cup Scopes]
    /\ phase \in {"down", "opening", "up"}
    /\ reg \in [DIDs -> Names \cup {None}]
    /\ toks \in [Tokens -> {None} \cup Scopes]
    /\ touches \subseteq Tokens
    /\ pc \in [Calls -> {"idle", "authorise", "route", "answered", "rejected", "lost"}]
    /\ bearer \in [Calls -> 0 .. MaxTokens]
    /\ asked \in [Calls -> Seq(Targets)]
    /\ did \in [Calls -> DIDs \cup {None}]
    /\ out \in [Calls -> Seq(Results)]
    /\ nextPeer \in 1 .. MaxPeers + 1
    /\ nextToken \in 1 .. MaxTokens + 1
    /\ granted \in [Tokens -> SUBSET DIDs]
    /\ freed \subseteq Names
    /\ retired \subseteq Tokens

Nobody == [d \in DIDs |-> None]
NoTokens == [t \in Tokens |-> None]

Init ==
    /\ peersFile = Nobody /\ tokensFile = NoTokens
    /\ phase = "down" /\ reg = Nobody /\ toks = NoTokens /\ touches = {}
    /\ pc = [c \in Calls |-> "idle"]
    /\ bearer = [c \in Calls |-> 0]
    /\ asked = [c \in Calls |-> <<>>]
    /\ did = [c \in Calls |-> None]
    /\ out = [c \in Calls |-> <<>>]
    /\ nextPeer = 1 /\ nextToken = 1
    /\ granted = [t \in Tokens |-> {}]
    /\ freed = {} /\ retired = {}

-----------------------------------------------------------------------------
(***************************************************************************)
(* Commands.                                                               *)
(***************************************************************************)
Taken(n) == \E d \in DIDs : peersFile[d] = n

\* coggo peer add
PeerAdd(n) ==
    /\ nextPeer <= MaxPeers
    /\ ~Taken(n)
    /\ peersFile' = [peersFile EXCEPT ![nextPeer] = n]
    /\ nextPeer' = nextPeer + 1
    /\ UNCHANGED <<tokensFile, server, call, nextToken, granted, freed, retired>>

\* coggo peer rename
PeerRename(d, new) ==
    /\ peersFile[d] # None /\ ~Taken(new)
    /\ peersFile' = [peersFile EXCEPT ![d] = new]
    /\ freed' = freed \cup {peersFile[d]}
    /\ UNCHANGED <<tokensFile, server, call, nextPeer, nextToken, granted, retired>>

\* coggo token create: every name must be a peer's (actionTokenCreate).
TokenCreate(scope) ==
    /\ nextToken <= MaxTokens
    /\ scope = {Star} \/ \A n \in scope : Taken(n)
    /\ tokensFile' = [tokensFile EXCEPT ![nextToken] = scope]
    /\ granted' = [granted EXCEPT ![nextToken] =
                      {d \in DIDs : Star \in scope \/ peersFile[d] \in scope}]
    /\ nextToken' = nextToken + 1
    /\ UNCHANGED <<peersFile, server, call, nextPeer, freed, retired>>

\* Mutant: the list is not flushed.
TokenRevokeUnflushed(t) ==
    /\ tokensFile[t] # None
    /\ retired' = IF phase = "up" THEN retired ELSE retired \cup {t}
    /\ UNCHANGED <<files, server, call, nextPeer, nextToken, granted, freed>>

\* coggo token revoke.  A server that is up keeps its copy.
TokenRevoke(t) ==
    /\ tokensFile[t] # None
    /\ tokensFile' = [tokensFile EXCEPT ![t] = None]
    /\ retired' = IF phase = "up" THEN retired ELSE retired \cup {t}
    /\ UNCHANGED <<peersFile, server, call, nextPeer, nextToken, granted, freed>>

-----------------------------------------------------------------------------
(***************************************************************************)
(* The server starts and stops.                                            *)
(***************************************************************************)
\* Setup: peer.Open.
OpenRegistry ==
    /\ phase = "down"
    /\ phase' = "opening"
    /\ reg' = peersFile
    /\ UNCHANGED <<files, toks, touches, call, ghost>>

\* Setup: auth.Open and the handlers, which follow the registry.
OpenTokens ==
    /\ phase = "opening"
    /\ phase' = "up"
    /\ toks' = tokensFile
    /\ UNCHANGED <<files, reg, touches, call, ghost>>

\* The server ends, with whatever it was doing.
Stop ==
    /\ phase # "down"
    /\ phase' = "down"
    /\ reg' = Nobody /\ toks' = NoTokens /\ touches' = {}
    /\ pc' = [c \in Calls |-> "idle"]
    /\ bearer' = [c \in Calls |-> 0]
    /\ asked' = [c \in Calls |-> <<>>]
    /\ did' = [c \in Calls |-> None]
    /\ out' = [c \in Calls |-> <<>>]
    /\ UNCHANGED <<files, ghost>>

\* touch: the server's list replaces tokens.json.
Touch(t) ==
    /\ phase = "up" /\ t \in touches
    /\ touches' = touches \ {t}
    /\ tokensFile' = toks
    /\ UNCHANGED <<peersFile, phase, reg, toks, call, ghost>>

-----------------------------------------------------------------------------
(***************************************************************************)
(* A tool call.                                                            *)
(***************************************************************************)
Arrive(c, peers, t) ==
    /\ phase = "up"
    /\ pc[c] \in {"idle", "answered", "rejected", "lost"}
    /\ pc' = [pc EXCEPT ![c] = "authorise"]
    /\ bearer' = [bearer EXCEPT ![c] = t]
    /\ asked' = [asked EXCEPT ![c] = peers]
    /\ out' = [out EXCEPT ![c] = <<>>]
    /\ did' = [did EXCEPT ![c] = None]
    /\ UNCHANGED <<files, server, ghost>>

\* Registry.Resolve: the peer of that name, or else of that DID.
Resolve(x) ==
    IF \E d \in DIDs : reg[d] = x THEN CHOOSE d \in DIDs : reg[d] = x
    ELSE IF x \in DIDs /\ reg[x] # None THEN x
    ELSE None

\* Verify and tokenCoversPeer: the token is listed and has the name in its scope.
Covers(t, name) ==
    /\ t \in Tokens /\ toks[t] # None
    /\ Star \in toks[t] \/ name \in toks[t]

\* authorizeForPeer: the DID, if the peer exists and the token is good for it.
Authorised(t, x) ==
    IF Resolve(x) # None /\ Covers(t, reg[Resolve(x)]) THEN Resolve(x) ELSE None

\* The peer a call comes to next.
Current(c) == asked[c][Len(out[c]) + 1]

\* One more result; after the last peer the call is answered.
Collect(c, result) ==
    /\ out' = [out EXCEPT ![c] = Append(@, result)]
    /\ did' = [did EXCEPT ![c] = None]
    /\ pc' = [pc EXCEPT ![c] = IF Len(out[c]) + 1 = Len(asked[c])
                               THEN "answered" ELSE "authorise"]

\* "peers entries must be strings": the whole call is an error.
RejectCall(c) ==
    /\ pc[c] = "authorise"
    /\ Current(c) = NotString
    /\ pc' = [pc EXCEPT ![c] = "rejected"]
    /\ out' = [out EXCEPT ![c] = <<>>]
    /\ UNCHANGED <<files, server, bearer, asked, did, ghost>>

\* Mutant: only the first peer is verified.
AuthoriseFirst(c) ==
    LET d == IF out[c] = <<>> THEN Authorised(bearer[c], Current(c)) ELSE Resolve(Current(c)) IN
    /\ pc[c] = "authorise"
    /\ Current(c) # NotString
    /\ d # None
    /\ pc' = [pc EXCEPT ![c] = "route"]
    /\ did' = [did EXCEPT ![c] = d]
    /\ touches' = touches \cup ({bearer[c]} \cap Tokens)
    /\ UNCHANGED <<files, phase, reg, toks, bearer, asked, out, ghost>>

\* authorizeForPeer succeeds; Verify leaves a touch behind.
Authorise(c) ==
    LET d == Authorised(bearer[c], Current(c)) IN
    /\ pc[c] = "authorise"
    /\ Current(c) # NotString
    /\ d # None
    /\ pc' = [pc EXCEPT ![c] = "route"]
    /\ did' = [did EXCEPT ![c] = d]
    /\ touches' = touches \cup {bearer[c]}
    /\ UNCHANGED <<files, phase, reg, toks, bearer, asked, out, ghost>>

\* Mutant: the first refusal ends the call.
DenyAll(c) ==
    /\ pc[c] = "authorise"
    /\ Current(c) # NotString
    /\ Authorised(bearer[c], Current(c)) = None
    /\ out' = [out EXCEPT ![c] = Append(@, Denied)]
    /\ pc' = [pc EXCEPT ![c] = "answered"]
    /\ UNCHANGED <<files, server, bearer, asked, did, ghost>>

\* authorizeForPeer fails: an error in the place of this peer's entities.
Deny(c) ==
    /\ pc[c] = "authorise"
    /\ Current(c) # NotString
    /\ Authorised(bearer[c], Current(c)) = None
    /\ Collect(c, Denied)
    /\ UNCHANGED <<files, server, bearer, asked, ghost>>

\* routeFederation and Router.Route: the handler of the DID answers, with its
\* peer's data or with an error.
Route(c) ==
    /\ pc[c] = "route"
    /\ \/ Collect(c, Data(did[c]))
       \/ CanFail /\ Collect(c, Failed)
    /\ UNCHANGED <<files, server, bearer, asked, ghost>>

\* The handler of an entity.update panics: it reads the data of an entity that
\* GetEntity did not find.  net/http ends the request without an answer.  Only the
\* tools about one peer write.
Panic(c) ==
    /\ pc[c] = "route"
    /\ CanFail
    /\ Len(asked[c]) = 1
    /\ pc' = [pc EXCEPT ![c] = "lost"]
    /\ did' = [did EXCEPT ![c] = None]
    /\ UNCHANGED <<files, server, bearer, asked, out, ghost>>

CallStep(c) == RejectCall(c) \/ Authorise(c) \/ Deny(c) \/ Route(c) \/ Panic(c)

AskedPeers == UNION {[1 .. n -> Targets] : n \in 1 .. MaxAsked}

Next ==
    \/ \E n \in Names : PeerAdd(n) \/ \E d \in DIDs : PeerRename(d, n)
    \/ \E scope \in Scopes : TokenCreate(scope)
    \/ \E t \in Tokens : TokenRevoke(t) \/ Touch(t)
    \/ OpenRegistry \/ OpenTokens \/ Stop
    \/ \E c \in Calls, peers \in AskedPeers, t \in {0} \cup Tokens : Arrive(c, peers, t)
    \/ \E c \in Calls : CallStep(c)

Spec == Init /\ [][Next]_vars

-----------------------------------------------------------------------------
(***************************************************************************)
(* Properties.                                                             *)
(***************************************************************************)

\* A token reaches only the peers it was issued for, although it is checked by
\* name and the message goes by DID, and although the server's two files may be
\* of different ages: the exceptions are names that a rename has given up, which
\* take the token to whoever has the name next (tokenCoversPeer).
NeverBeyondGrant ==
    \A c \in Calls : \A k \in DOMAIN out[c] :
        out[c][k].kind = "data" =>
            /\ bearer[c] \in Tokens /\ toks[bearer[c]] # None
            /\ \/ out[c][k].did \in granted[bearer[c]]
               \/ Star \in toks[bearer[c]]
               \/ reg[out[c][k].did] \in freed

\* "peers it cannot access are returned as errors in the response rather than
\* failing the whole call" (api.md): an answered call has one result per peer,
\* in order, each from the very peer asked for, and the only peers refused are
\* those the token does not cover, whatever became of the others.
CrossPeerComplete ==
    \A c \in Calls : pc[c] = "answered" =>
        /\ Len(out[c]) = Len(asked[c])
        /\ \A k \in DOMAIN asked[c] :
              /\ out[c][k] = Denied <=> Authorised(bearer[c], asked[c][k]) = None
              /\ out[c][k].kind = "data" => out[c][k].did = Resolve(asked[c][k])

\* Revocation works across restarts: a token revoked while no server had read it
\* stays out of tokens.json and of every later server's list, in spite of the
\* lists that servers write back (touch).
RetiredStaysOut ==
    \A t \in retired : tokensFile[t] = None /\ (phase = "up" => toks[t] = None)

\* "Revoke removes the token with the given ID and flushes to disk" (tokens.go): a
\* token that a revocation took out of tokens.json stays out.  It does not while a
\* server is up, whose next touch writes back the list it read before.
RevokedForGood ==
    [][\A t \in Tokens : t < nextToken /\ tokensFile[t] = None => tokensFile'[t] = None]_vars

=============================================================================
