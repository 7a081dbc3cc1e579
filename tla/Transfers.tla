----------------------------- MODULE Transfers -----------------------------
(***************************************************************************)
(* The upload of a file from an agent: _cmd_file_transfer of the agent     *)
(* posts it in chunks with three attempts each, api_agent_file_upload of   *)
(* routers/agent_deploy.py collects and reassembles them, and the loop     *)
(* _cleanup_transfers of app.py removes what is an hour old.  The handler  *)
(* does not await once it has the body: it is one step.  A request may be  *)
(* lost, its answer too, or the agent gives up on it and it is handled     *)
(* later.                                                                  *)
(***************************************************************************)
EXTENDS Naturals, FiniteSets, Sequences

CONSTANTS Chunks,         \* chunks of the file
          Attempts,       \* attempts of the agent for one chunk, 3 in the code
          TransferFaults  \* bound: losses, late requests, changes, expiries

ASSUME TransferAssumption == {Chunks, Attempts} \subseteq Nat \ {0} /\ TransferFaults \in Nat

VARIABLES upload,    \* the agent's loop: chunk, failed attempts, state
          changed,   \* the file was written to since its checksum was taken
          request,   \* requests on their way; the agent waits for the one "live"
          transfer,  \* _transfers[transfer_id]
          chunkFile, \* the chunk files, by what they hold
          final,     \* the reassembled file, or none
          upset,     \* the entry expired or was lost, or a request came late
          slips

transferVars == <<upload, changed, request, transfer, chunkFile, final, upset, slips>>

Index == 1..Chunks
Content == {"good", "bad"}
NoEntry == [known |-> FALSE, received |-> {}, complete |-> FALSE]
NoFile == [exists |-> FALSE, parts |-> <<>>]

TransferTypeOK ==
    /\ upload \in [at : Index, tries : 0..Attempts, state : {"send", "wait", "ok", "error"}]
    /\ changed \in BOOLEAN /\ upset \in BOOLEAN
    /\ request \subseteq [i : Index, holds : Content, live : BOOLEAN]
    /\ transfer \in [known : BOOLEAN, received : SUBSET Index, complete : BOOLEAN]
    /\ chunkFile \in [Index -> {"none"} \union Content]
    /\ final.exists \in BOOLEAN /\ final.parts \in Seq(Content)
    /\ slips \in 0..TransferFaults

TransferInit ==
    /\ upload = [at |-> 1, tries |-> 0, state |-> "send"]
    /\ changed = FALSE /\ request = {} /\ transfer = NoEntry
    /\ chunkFile = [i \in Index |-> "none"]
    /\ final = NoFile /\ upset = FALSE /\ slips = 0

Slip == slips < TransferFaults /\ slips' = slips + 1

Whole(file) == file.exists /\ file.parts = [i \in Index |-> "good"]

\* The agent posts a chunk; all its attempts send what the first one read.
Post ==
    /\ upload.state = "send"
    /\ \E holds \in IF changed THEN Content ELSE {"good"} :
          request' = request \union {[i |-> upload.at, holds |-> holds, live |-> TRUE]}
    /\ upload' = [upload EXCEPT !.state = "wait"]
    /\ UNCHANGED <<changed, transfer, chunkFile, final, upset, slips>>

\* A chunk was received: the next one, or the end.
Advanced == IF upload.at < Chunks THEN [at |-> upload.at + 1, tries |-> 0, state |-> "send"]
            ELSE [upload EXCEPT !.state = "ok"]

FailedGoesOn == IF upload.tries + 1 < Attempts
                  THEN [upload EXCEPT !.tries = @ + 1, !.state = "send"] ELSE Advanced

\* An attempt failed: the next one, or the end of the upload.
Failed == IF upload.tries + 1 < Attempts
            THEN [upload EXCEPT !.tries = @ + 1, !.state = "send"]
            ELSE [upload EXCEPT !.state = "error"]

\* The chunks before the first that has no file.
Prefix(files) == IF \A i \in Index : files[i] # "none" THEN Chunks
                 ELSE (CHOOSE i \in Index : /\ files[i] = "none"
                                            /\ \A j \in 1..i - 1 : files[j] # "none") - 1

\* What a chunk brings: it is counted and written, ...
Received(r) == transfer.received \union {r.i}
Entry(r) == [transfer EXCEPT !.known = TRUE, !.received = Received(r)]
Files(r) == [chunkFile EXCEPT ![r.i] = r.holds]

\* ... and when all were received the file is opened anew, and chunk files are
\* appended and removed one by one, up to one that is not there.
Joined(r) == [exists |-> TRUE, parts |-> [i \in 1..Prefix(Files(r)) |-> Files(r)[i]]]
Left(r) == [i \in Index |-> IF i <= Prefix(Files(r)) THEN "none" ELSE Files(r)[i]]

\* What api_agent_file_upload leaves behind: the missing file raises, and the
\* checksum decides.
Served(r) ==
    IF Cardinality(Received(r)) < Chunks
    THEN [entry |-> Entry(r), files |-> Files(r), file |-> final, ok |-> TRUE]
    ELSE IF Prefix(Files(r)) < Chunks
    THEN [entry |-> Entry(r), files |-> Left(r), file |-> Joined(r), ok |-> FALSE]
    ELSE IF Whole(Joined(r))
    THEN [entry |-> [Entry(r) EXCEPT !.complete = TRUE], files |-> Left(r), file |-> Joined(r),
          ok |-> TRUE]
    ELSE [entry |-> NoEntry, files |-> Left(r), file |-> NoFile, ok |-> FALSE]

\* The handler, and the answer, which may be lost.
HandleChunk(r) ==
    /\ r \in request
    /\ request' = request \ {r}
    /\ transfer' = Served(r).entry /\ chunkFile' = Served(r).files /\ final' = Served(r).file
    /\ upset' = (upset \/ ~r.live)
    /\ \/ /\ upload' = IF ~r.live THEN upload ELSE IF Served(r).ok THEN Advanced ELSE Failed
          /\ UNCHANGED slips
       \/ r.live /\ Slip /\ upload' = Failed
    /\ UNCHANGED changed

\* The request is lost, or the agent waits no longer and it comes late.
RequestFails(r) ==
    /\ r \in request /\ r.live /\ Slip
    /\ request' \in {request \ {r}, (request \ {r}) \union {[r EXCEPT !.live = FALSE]}}
    /\ upload' = Failed
    /\ UNCHANGED <<changed, transfer, chunkFile, final, upset>>

FileChanges ==
    /\ ~changed /\ Slip /\ changed' = TRUE
    /\ UNCHANGED <<upload, request, transfer, chunkFile, final, upset>>

\* _cleanup_transfers: the entry is an hour old, whether chunks still come or
\* not; everything of it is removed.
Expire ==
    /\ transfer.known /\ Slip
    /\ transfer' = NoEntry /\ chunkFile' = [i \in Index |-> "none"] /\ final' = NoFile
    /\ upset' = TRUE
    /\ UNCHANGED <<upload, changed, request>>

\* The server restarts: the entries are gone, the files stay.
TransfersRestart ==
    /\ Slip
    /\ transfer' = NoEntry /\ request' = {} /\ upset' = TRUE
    /\ upload' = IF upload.state = "wait" THEN Failed ELSE upload
    /\ UNCHANGED <<changed, chunkFile, final>>

TransferNext ==
    \/ Post \/ FileChanges \/ Expire \/ TransfersRestart
    \/ \E r \in request : HandleChunk(r) \/ RequestFails(r)

TransferSpec == TransferInit /\ [][TransferNext]_transferVars

-----------------------------------------------------------------------------
(* Properties. *)

\* An upload that the agent reports as successful is on the server, reassembled
\* and as it was when its checksum was taken, whatever was lost or repeated on
\* the way; unless the file changed under the upload, the entry expired or was
\* lost meanwhile, or a request was handled after the agent had given up on it.
\* (After a change the server removes the bad file, and the repeated last chunk
\* opens a new entry: the agent is told that all is well.)
UploadedIsWhole ==
    upload.state = "ok" /\ ~upset /\ ~changed => transfer.complete /\ Whole(final)
=============================================================================
