---- MODULE GeoIPDownload ----
(***************************************************************************)
(* The download of the GeoLite2 databases at startup                       *)
(* (src/internal/geoip/downloader.go): one after the other, those that are *)
(* not recent, each with a few attempts, each attempt into a temporary     *)
(* file that is renamed over the database when it is complete.  The first  *)
(* database that cannot be had ends the download with an error, which main *)
(* answers with a warning.                                                 *)
(***************************************************************************)
EXTENDS Naturals, Sequences

CONSTANTS Databases,     \* in the order of the code: ASN, Country, City
          Bodies,        \* what a server may answer with status 200:
                         \* "db", a usable database, "junk" or "empty"
          maxRetries

ASSUME DownloadAssumption ==
    /\ Databases \in Seq({"asn", "country", "city"}) /\ Len(Databases) > 0
    /\ Bodies \subseteq {"db", "junk", "empty"}
    /\ maxRetries \in Nat \ {0}

VARIABLES
    files,    \* database -> its file: the contents ("none": no file), and
              \* whether it was modified within dbMaxAge
    dl,       \* where DownloadDB is: off, mkdir, check, request, copy,
              \* rename, sleep; done or failed
    at,       \* the index in Databases of the one at hand
    attempt,
    tmp       \* contents of the temporary file, "none" outside an attempt

downloadVars == <<files, dl, at, attempt, tmp>>

Dbs == {Databases[i] : i \in DOMAIN Databases}
NoFile == [body |-> "none", recent |-> FALSE]

isFresh(file) == file.body \notin {"none", "empty"} /\ file.recent

----------------------------------------------------------------------------
\* DownloadDB

Finished(how) == dl' = how /\ at' = 1 /\ attempt' = 1

StartDownload ==
    /\ dl = "off" /\ dl' = "mkdir" /\ at' = 1
    /\ UNCHANGED <<files, attempt, tmp>>

MkdirAll == dl = "mkdir" /\ dl' = "check" /\ UNCHANGED <<files, at, attempt, tmp>>

MkdirFails ==
    /\ dl = "mkdir" /\ Finished("failed")
    /\ UNCHANGED <<files, tmp>>

NextDatabase ==
    IF at = Len(Databases) THEN Finished("done")
    ELSE dl' = "check" /\ at' = at + 1 /\ attempt' = 1

Skip ==
    /\ dl = "check" /\ isFresh(files[Databases[at]])
    /\ NextDatabase
    /\ UNCHANGED <<files, tmp>>

BeginRetries ==
    /\ dl = "check" /\ ~isFresh(files[Databases[at]])
    /\ dl' = "request" /\ attempt' = 1
    /\ UNCHANGED <<files, at, tmp>>

----------------------------------------------------------------------------
\* downloadFile: one attempt, bounded by downloadTimeout.

\* (mutant: the download goes straight into the database file)
MutantRequest ==
    /\ dl = "request" /\ dl' = "copy" /\ tmp' = "part"
    /\ files' = [files EXCEPT ![Databases[at]].body = "part"]
    /\ UNCHANGED <<at, attempt>>
\* The server answers 200, and the temporary file is created.
Request ==
    /\ dl = "request" /\ dl' = "copy" /\ tmp' = "part"
    /\ UNCHANGED <<files, at, attempt>>

\* The body arrives whole; nobody looks at it.
Copy(body) ==
    /\ dl = "copy" /\ dl' = "rename" /\ tmp' = body
    /\ UNCHANGED <<files, at, attempt>>

Rename ==
    /\ dl = "rename"
    /\ files' = [files EXCEPT ![Databases[at]] = [body |-> tmp, recent |-> TRUE]]
    /\ tmp' = "none"
    /\ NextDatabase

\* No answer, another status, no temporary file; a body that breaks off; or
\* no rename.  A temporary file is removed on the way out.
AttemptFails ==
    /\ dl \in {"request", "copy", "rename"} /\ dl' = "sleep" /\ tmp' = "none"
    /\ UNCHANGED <<files, at, attempt>>

----------------------------------------------------------------------------
\* downloadWithRetry, after the sleep that follows each failed attempt.

\* (mutant: one attempt too many)
MutantRetryOnce ==
    /\ dl = "sleep" /\ attempt <= maxRetries
    /\ dl' = "request" /\ attempt' = attempt + 1
    /\ UNCHANGED <<files, at, tmp>>
Retry ==
    /\ dl = "sleep" /\ attempt < maxRetries
    /\ dl' = "request" /\ attempt' = attempt + 1
    /\ UNCHANGED <<files, at, tmp>>

GiveUp ==
    /\ dl = "sleep" /\ attempt >= maxRetries
    /\ Finished("failed")
    /\ UNCHANGED <<files, tmp>>

----------------------------------------------------------------------------
\* The process is gone: its memory is, the files are not.  A temporary file
\* that it leaves behind is never looked at again, nor removed.
DownloadLost ==
    /\ dl' = "off" /\ at' = 1 /\ attempt' = 1 /\ tmp' = "none"
    /\ UNCHANGED files

DownloadStep ==
    \/ MkdirAll \/ MkdirFails \/ Skip \/ BeginRetries
    \/ Request \/ (\E body \in Bodies : Copy(body)) \/ Rename \/ AttemptFails
    \/ Retry \/ GiveUp

DownloadInit ==
    /\ files = [d \in Dbs |-> NoFile]
    /\ dl = "off" /\ at = 1 /\ attempt = 1 /\ tmp = "none"

----------------------------------------------------------------------------
DownloadTypeOK ==
    /\ files \in [Dbs -> [body : Bodies \cup {"none"}, recent : BOOLEAN]]
    /\ dl \in {"off", "mkdir", "check", "request", "copy", "rename", "sleep", "done",
              "failed"}
    /\ at \in DOMAIN Databases /\ attempt \in 1..maxRetries
    /\ tmp \in Bodies \cup {"none", "part"}

(* A failed download never corrupts an existing database: a usable file    *)
(* stays usable through broken answers, full disks and kills, unless the   *)
(* server has sent something else, whole and with status 200.              *)
UsableStaysUsable ==
    [][\A d \in Dbs :
          files[d].body = "db" /\ files'[d].body # "db" =>
              /\ dl = "rename" /\ Databases[at] = d
              /\ tmp \in Bodies \ {"db"}]_downloadVars
====
