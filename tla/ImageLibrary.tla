----------------------------- MODULE ImageLibrary -----------------------------
(***************************************************************************)
(* The local media library (services/library.rs, api/library.rs): uploads   *)
(* of ISOs, container templates and disk images, background downloads of    *)
(* disk images, and deletion.                                               *)
(*                                                                          *)
(* A body is streamed into a file with a generated name and renamed to its  *)
(* own name at the end.  Nothing is locked: requests for the same name run  *)
(* side by side.  Bodies are counted in chunks; a job's body has as many    *)
(* chunks as its sender will send.                                          *)
(***************************************************************************)
EXTENDS Naturals, Sequences, SequencesExt

CONSTANTS LibNames,      \* valid file names
          Jobs,          \* uploads and downloads that may be started
          Downloads,     \* those of Jobs that are downloads (start_fetch)
          MaxBody,       \* chunks a sender may send
          MaxUpload,     \* max_upload_bytes, in chunks
          MaxRedirects,  \* MAX_FETCH_REDIRECTS
          MaxHistory,    \* MAX_FETCH_HISTORY
          MaxLibCrashes

\* the largest upload is a count of chunks
ASSUME LibAssumption == MaxUpload \in Nat

VARIABLES libFiles,   \* [LibNames -> chunks in the file and in the body it came from, or NoFile]
          partials,   \* jobs whose generated .partial file exists
          jobs,       \* [Jobs -> state of the upload or download]
          fetches,    \* the in-memory list of downloads, oldest first
          deleter,    \* the DELETE request under way: the file it has found
          libUp, libCrashes

libvars == <<libFiles, partials, jobs, fetches, deleter, libUp, libCrashes>>

NoFile == [chunks |-> 0, of |-> 0]
NewJob == [pc |-> "new", name |-> "none", body |-> 0, written |-> 0, hops |-> 0,
           outcome |-> "none"]

OverJob == [NewJob EXCEPT !.pc = "over"]

LibInit ==
    /\ libFiles = [n \in LibNames |-> NoFile]
    /\ partials = {}
    /\ jobs = [j \in Jobs |-> NewJob]
    /\ fetches = <<>>
    /\ deleter = "none"
    /\ libUp = TRUE /\ libCrashes = 0

LibAt(j, pc) == libUp /\ jobs[j].pc = pc
LibTo(j, pc) == jobs' = [jobs EXCEPT ![j].pc = pc]

\* a job is over: an upload answers its client, a download goes on to finish_fetch
Ended(j, outcome) ==
    jobs' = [jobs EXCEPT ![j] = IF j \in Downloads
                                THEN [NewJob EXCEPT !.pc = "finish", !.outcome = outcome]
                                ELSE OverJob]

-----------------------------------------------------------------------------
(* start_fetch and run_fetch                                                *)

\* mistake: the oldest entry goes, whether or not its download has ended
PruneFetches_Oldest(s) == IF Len(s) > MaxHistory THEN Tail(s) ELSE s

\* prune_fetches: over the cap, the oldest finished entry goes; one push, one entry too many
PruneFetches(s) ==
    IF Len(s) > MaxHistory /\ \E i \in DOMAIN s : s[i].state # "downloading"
    THEN RemoveAt(s, SelectInSeq(s, LAMBDA f : f.state # "downloading"))
    ELSE s

\* parse_fetch_url, derive_fetch_name: a request with a bad url or name starts nothing
StartFetch(j, n, b) ==
    /\ LibAt(j, "new") /\ j \in Downloads
    /\ fetches' = PruneFetches(Append(fetches, [id |-> j, state |-> "downloading"]))
    /\ jobs' = [jobs EXCEPT ![j] = [NewJob EXCEPT !.pc = "request", !.name = n, !.body = b]]
    /\ UNCHANGED <<libFiles, partials, deleter, libUp, libCrashes>>

\* loop_response: the host of every hop is resolved and must be public
Redirected(j) ==
    /\ LibAt(j, "request") /\ jobs[j].hops < MaxRedirects
    /\ jobs' = [jobs EXCEPT ![j].hops = @ + 1]
    /\ UNCHANGED <<libFiles, partials, fetches, deleter, libUp, libCrashes>>

\* refused host, transport error, HTTP error, too many redirects, FETCH_TIMEOUT
FetchFails(j) ==
    /\ LibAt(j, "request")
    /\ Ended(j, "failed")
    /\ UNCHANGED <<libFiles, partials, fetches, deleter, libUp, libCrashes>>

\* a success response: a content length over the maximum is refused before the body
Responded(j) ==
    /\ LibAt(j, "request")
    /\ \/ LibTo(j, "open")
       \/ jobs[j].body > MaxUpload /\ Ended(j, "failed")
    /\ UNCHANGED <<libFiles, partials, fetches, deleter, libUp, libCrashes>>

FinishFetch(j) ==
    /\ LibAt(j, "finish")
    /\ fetches' = [i \in DOMAIN fetches |->
                     IF fetches[i].id = j THEN [fetches[i] EXCEPT !.state = jobs[j].outcome]
                     ELSE fetches[i]]
    /\ jobs' = [jobs EXCEPT ![j] = OverJob]
    /\ UNCHANGED <<libFiles, partials, deleter, libUp, libCrashes>>

-----------------------------------------------------------------------------
(* upload                                                                   *)

\* POST of a body: validate_library_filename has accepted the name
BeginUpload(j, n, b) ==
    /\ LibAt(j, "new") /\ j \notin Downloads
    /\ jobs' = [jobs EXCEPT ![j] = [NewJob EXCEPT !.pc = "open", !.name = n, !.body = b]]
    /\ UNCHANGED <<libFiles, partials, fetches, deleter, libUp, libCrashes>>

\* File::create of the generated name
OpenPartial(j) ==
    /\ LibAt(j, "open")
    /\ partials' = partials \cup {j}
    /\ LibTo(j, "stream")
    /\ UNCHANGED <<libFiles, fetches, deleter, libUp, libCrashes>>

OpenFails(j) ==
    /\ LibAt(j, "open")
    /\ Ended(j, "failed")
    /\ UNCHANGED <<libFiles, partials, fetches, deleter, libUp, libCrashes>>

\* a chunk that does not exceed the maximum is written
WriteChunk(j) ==
    /\ LibAt(j, "stream") /\ jobs[j].written < jobs[j].body /\ jobs[j].written < MaxUpload
    /\ jobs' = [jobs EXCEPT ![j].written = @ + 1]
    /\ UNCHANGED <<libFiles, partials, fetches, deleter, libUp, libCrashes>>

\* mistake: an error of the stream is taken for its end
StreamFails_IsEnd(j) ==
    /\ LibAt(j, "stream")
    /\ LibTo(j, "rename")
    /\ UNCHANGED <<libFiles, partials, fetches, deleter, libUp, libCrashes>>

\* the body is too large, the stream breaks, a write or the flush fails, or the
\* body is empty: the partial file is removed
StreamFails(j) ==
    /\ LibAt(j, "stream")
    /\ partials' = partials \ {j}
    /\ Ended(j, "failed")
    /\ UNCHANGED <<libFiles, fetches, deleter, libUp, libCrashes>>

StreamEnds(j) ==
    /\ LibAt(j, "stream") /\ jobs[j].written = jobs[j].body /\ jobs[j].written > 0
    /\ LibTo(j, "rename")
    /\ UNCHANGED <<libFiles, partials, fetches, deleter, libUp, libCrashes>>

\* rename replaces a file of that name at once
RenamePartial(j) ==
    /\ LibAt(j, "rename")
    /\ libFiles' = [libFiles EXCEPT ![jobs[j].name] = [chunks |-> jobs[j].written, of |-> jobs[j].body]]
    /\ partials' = partials \ {j}
    /\ Ended(j, "completed")
    /\ UNCHANGED <<fetches, deleter, libUp, libCrashes>>

\* a failing rename leaves the partial file
RenameFails(j) ==
    /\ LibAt(j, "rename")
    /\ Ended(j, "failed")
    /\ UNCHANGED <<libFiles, partials, fetches, deleter, libUp, libCrashes>>

\* the client of an upload disconnects: its handler is dropped, a file operation it has begun
\* is not, so File::create may still make the file and a rename ends as it would have; a download
\* has no client
LibHangUp(j) ==
    /\ libUp /\ j \notin Downloads /\ jobs[j].pc \in {"open", "stream"}
    /\ jobs' = [jobs EXCEPT ![j] = OverJob]
    /\ partials' \in {partials, partials \cup {j}}
    /\ UNCHANGED <<libFiles, fetches, deleter, libUp, libCrashes>>

-----------------------------------------------------------------------------
(* delete: the file is found in the listing and removed by its path         *)

FindFile(n) ==
    /\ libUp /\ deleter = "none" /\ libFiles[n] # NoFile
    /\ deleter' = n
    /\ UNCHANGED <<libFiles, partials, jobs, fetches, libUp, libCrashes>>

\* whatever has that name now; an error when it is gone already
RemoveFile ==
    /\ libUp /\ deleter # "none"
    /\ libFiles' = [libFiles EXCEPT ![deleter] = NoFile]
    /\ deleter' = "none"
    /\ UNCHANGED <<partials, jobs, fetches, libUp, libCrashes>>

LibCrash ==
    /\ libUp /\ libCrashes < MaxLibCrashes
    /\ libCrashes' = libCrashes + 1
    /\ libUp' = FALSE
    /\ jobs' = [j \in Jobs |-> IF jobs[j].pc = "new" THEN NewJob
                               ELSE [NewJob EXCEPT !.pc = "lost"]]
    /\ fetches' = <<>>
    /\ deleter' = "none"
    /\ UNCHANGED <<libFiles, partials>>

LibBoot ==
    /\ ~libUp
    /\ libUp' = TRUE
    /\ UNCHANGED <<libFiles, partials, jobs, fetches, deleter, libCrashes>>

JobStep(j) ==
    \/ FetchFails(j) \/ Responded(j) \/ FinishFetch(j)
    \/ OpenPartial(j) \/ OpenFails(j) \/ WriteChunk(j) \/ StreamFails(j) \/ StreamEnds(j)
    \/ RenamePartial(j) \/ RenameFails(j)

LibNext ==
    \/ \E j \in Jobs : \/ \E n \in LibNames, b \in 0..MaxBody : StartFetch(j, n, b) \/ BeginUpload(j, n, b)
                       \/ JobStep(j)
                       \/ Redirected(j)
                       \/ LibHangUp(j)
    \/ \E n \in LibNames : FindFile(n)
    \/ RemoveFile
    \/ LibCrash
    \/ LibBoot

LibSpec == LibInit /\ [][LibNext]_libvars

\* the runtime drives a download, and FETCH_TIMEOUT ends what the network holds up
LibFair == LibSpec /\ \A j \in Downloads : WF_libvars(JobStep(j))

-----------------------------------------------------------------------------
(* "A failed or oversized upload never leaves a half-written file           *)
(* masquerading as a usable image" (library.rs, module comment): every file *)
(* that the library lists is the whole body of one upload, however uploads, *)
(* downloads and deletions of one name overlap, and after a crash.          *)
ListedFilesAreWhole ==
    \A n \in LibNames : libFiles[n] # NoFile =>
        /\ libFiles[n].chunks = libFiles[n].of
        /\ libFiles[n].chunks \in 1..MaxUpload

(* A download that has been accepted ends, and the list shows how it ended, *)
(* also when the history is full of downloads under way (prune_fetches,     *)
(* finish_fetch); only a restart of the backend loses it.                   *)
DownloadOutcomeIsListed ==
    \A j \in Downloads :
        jobs[j].pc = "request" ~>
            \/ jobs[j].pc = "lost"
            \/ \E i \in DOMAIN fetches : fetches[i].id = j /\ fetches[i].state # "downloading"
=============================================================================
