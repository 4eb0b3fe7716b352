----------------------------- MODULE SelfUpdate -----------------------------
(***************************************************************************)
(* The update command of a generated CLI: a release of GitHub, the asset   *)
(* for this system, its digest, the binary in it, and the executable       *)
(* replaced by rename (pkg/lathe/update.go).                               *)
(*                                                                         *)
(* An archive stands for its bytes; its digest is the archive itself.  The *)
(* service may put other archives in a release at any time.                *)
(***************************************************************************)
EXTENDS Integers, Sequences

CONSTANTS
    Versions,     \* versions: of this binary and the tags of releases
    SuffixOrder,  \* suffixes of versions, in the order of their bytes
    Archives,     \* archives a release may have
    Releases      \* releases the service may name as the latest

\* An archive is a list of members; an asset that is no archive is the binary itself, and a
\* release has binaries of its own.
ASSUME SelfUpdateAssumption ==
    \A a \in Archives :
        /\ Len(a.members) \in Nat /\ DOMAIN a.members = 1 .. Len(a.members)
        /\ a.format = "plain" => 1 \in DOMAIN a.members /\ a.members[1].named
        /\ \A k \in DOMAIN a.members : a.members[k].bytes # "own"

VARIABLES
    phase,      \* where the command is
    running,    \* the version of this binary
    release,    \* the release it has read
    archive,    \* what it has downloaded
    payload,    \* the binary it is to install
    temps,      \* its temporary files
    exe         \* the executable

updateVars == <<phase, running, release, archive, payload, temps, exe>>

NoArchive == [format |-> "none", members |-> <<>>]

NoBinary == [bytes |-> "none", mode |-> "none"]

NoRelease == [tag |-> [ok |-> FALSE, parts |-> <<0, 0, 0>>, suffix |-> ""], assets |-> <<>>]

\* The permissions of the executable.
OwnMode == "own"

\* The binary that runs.
OwnBinary == [bytes |-> "own", mode |-> OwnMode]

Over == {"updated", "current", "cancelled", "failed", "killed"}

UpdateIdle ==
    /\ running = NoRelease.tag /\ release = NoRelease /\ archive = NoArchive
    /\ payload = NoBinary /\ temps = {} /\ exe = OwnBinary

UpdateInit ==
    /\ phase = "fetch" /\ running \in Versions
    /\ release = NoRelease /\ archive = NoArchive /\ payload = NoBinary /\ temps = {} /\ exe = OwnBinary

-----------------------------------------------------------------------------
(* compareVersions *)

\* Suffixes are compared as strings, and none is the latest.
SuffixBefore(a, b) ==
    CASE a = b -> FALSE
      [] a # b /\ b = "" -> TRUE
      [] a # b /\ a = "" -> FALSE
      [] OTHER -> \E i, j \in DOMAIN SuffixOrder : SuffixOrder[i] = a /\ SuffixOrder[j] = b /\ i < j

PartsBefore(a, b) == \E i \in 1 .. 3 : a[i] < b[i] /\ \A j \in 1 .. i - 1 : a[j] = b[j]

Before(a, b) == PartsBefore(a.parts, b.parts) \/ (a.parts = b.parts /\ SuffixBefore(a.suffix, b.suffix))

-----------------------------------------------------------------------------
(* runGitHubUpdate *)

Cleanup(outcome) == phase' = outcome /\ temps' = {}

Goto(label) == phase' = label /\ UNCHANGED temps

\* fetchLatestGitHubRelease, compareVersions
FetchRelease ==
    /\ phase = "fetch"
    /\ \/ /\ \E r \in Releases :
               /\ release' = r
               /\ CASE ~(running.ok /\ r.tag.ok) -> Goto("failed")
                    [] running.ok /\ r.tag.ok /\ Before(running, r.tag) -> Goto("ask")
                    [] OTHER -> Goto("current")
       \/ Goto("failed") /\ UNCHANGED release
    /\ UNCHANGED <<running, archive, payload, exe>>

\* confirmUpdate; --yes is an answer too.
Confirm ==
    /\ phase = "ask" /\ (Goto("select") \/ Goto("cancelled"))
    /\ UNCHANGED <<running, release, archive, payload, exe>>

\* The first item of seq that is one of the set, if any.
FirstOf(seq, places) == {seq[k] : k \in {i \in places : \A j \in places : i <= j}}

\* findReleaseAsset for the name that renderUpdateAssetName makes of the manifest's pattern.
Asset == FirstOf(release.assets, {i \in DOMAIN release.assets : release.assets[i].ours})

\* The asset with a digest; a release may lack either.
SelectAsset ==
    /\ phase = "select"
    /\ IF \E asset \in Asset : asset.digest # NoArchive THEN Goto("download") ELSE Goto("failed")
    /\ UNCHANGED <<running, release, archive, payload, exe>>

CreateDownload ==
    /\ phase = "download" /\ phase' = "receive" /\ temps' = {"archive"}
    /\ UNCHANGED <<running, release, archive, payload, exe>>

\* Whatever came is taken.
AnyBytes(bytes) == TRUE

\* The digest of what was written is the asset's.
DigestHolds(bytes) == \E asset \in Asset : bytes = asset.digest

\* downloadReleaseAsset: an answer that breaks off, or of other bytes, is removed.
Download ==
    /\ phase = "receive"
    /\ \/ \E bytes \in Archives :
            /\ DigestHolds(bytes) /\ archive' = bytes
            /\ Goto(IF bytes.format = "plain" THEN "install" ELSE "extract")
            /\ payload' = IF bytes.format = "plain" THEN [bytes |-> bytes.members[1].bytes, mode |-> "private"]
                          ELSE NoBinary
       \/ Cleanup("failed") /\ UNCHANGED <<archive, payload>>
    /\ UNCHANGED <<running, release, exe>>

\* The members that are our binary: in a zip all but directories, in a tar regular files.
Ours(member) ==
    member.named /\ member.kind \in (IF archive.format = "zip" THEN {"file", "link"} ELSE {"file"})

\* extractTarGzBinary, extractZipBinary: the first that is.
Binary == FirstOf(archive.members, {i \in DOMAIN archive.members : Ours(archive.members[i])})

\* writeUpdatePayload: a temporary file with the member's bytes and mode, removed if they
\* cannot be written; the archive is removed on every way out.
Extract ==
    /\ phase = "extract"
    /\ \/ /\ phase' = "install" /\ temps' = temps \cup {"payload"}
          /\ \E binary \in Binary : payload' = [bytes |-> binary.bytes, mode |-> binary.mode]
       \/ Cleanup("failed") /\ UNCHANGED payload
    /\ UNCHANGED <<running, release, archive, exe>>

CreateCopy ==
    /\ phase = "install" /\ phase' = "copy" /\ temps' = temps \cup {"copy"}
    /\ UNCHANGED <<running, release, archive, payload, exe>>

\* replaceExecutable: the copy, with the executable's permissions, takes its place.
Replace ==
    /\ phase = "copy"
    /\ \/ phase' = "report" /\ temps' = temps \ {"copy"} /\ exe' = [payload EXCEPT !.mode = OwnMode]
       \/ Cleanup("failed") /\ UNCHANGED exe
    /\ UNCHANGED <<running, release, archive, payload>>

Report ==
    /\ phase = "report" /\ Cleanup("updated")
    /\ UNCHANGED <<running, release, archive, payload, exe>>

\* The process is killed; deferred removals do not run.
Kill ==
    /\ phase \notin Over /\ phase' = "killed"
    /\ UNCHANGED <<running, release, archive, payload, temps, exe>>

UpdateNext ==
    \/ FetchRelease \/ Confirm \/ SelectAsset \/ CreateDownload \/ Download
    \/ Extract \/ CreateCopy \/ Replace \/ Report \/ Kill

UpdateSpec == UpdateInit /\ [][UpdateNext]_updateVars

-----------------------------------------------------------------------------
\* The executable is the one that ran or, whole and with its permissions, the first
\* binary of an archive whose digest the release named for this system, of a release
\* after the version that ran: whatever the service puts into its assets meanwhile, and
\* wherever the update fails or is killed (update.go:65-124, 203-242, 374-419).
OnlyVerified ==
    exe # OwnBinary =>
        /\ exe.mode = OwnMode
        /\ \E i \in DOMAIN release.assets :
             LET asset == release.assets[i]
             IN /\ asset.ours
                /\ \E k \in DOMAIN asset.digest.members :
                     /\ asset.digest.members[k].named /\ asset.digest.members[k].bytes = exe.bytes
                     /\ \A j \in 1 .. k - 1 : ~(asset.digest.members[j].named /\ asset.digest.members[j].kind = "file")
        /\ running.parts # release.tag.parts => PartsBefore(running.parts, release.tag.parts)

\* An update that was not killed leaves no temporary file, in the directory of the
\* executable or elsewhere, and reports that it updated exactly if it replaced the
\* executable.
LeavesNothing ==
    /\ phase \in Over \ {"killed"} => temps = {}
    /\ phase = "updated" => exe # OwnBinary
    /\ phase \in {"current", "cancelled", "failed"} => exe = OwnBinary

\* What an update does to the machine it runs on: both of these, wherever it fails.
UpdateWhole == OnlyVerified /\ LeavesNothing
=============================================================================
