------------------------------ MODULE Updater -------------------------------
(***************************************************************************)
(* `ayame update` and `ayame remove` (cli/update), and the update button of *)
(* the desktop window: a release is resolved, fetched into a private        *)
(* directory, verified, and put in the place of the installed build.        *)
(* Several of them may run at once, each may be killed, and the publisher   *)
(* may upload the release again meanwhile.                                  *)
(***************************************************************************)
EXTENDS Naturals

CONSTANTS
    Updaters,     \* the processes that update or remove
    Errands,      \* what they may be asked: "update", "force", "remove"
    Orders        \* how this build may compare with the release: "less" ...

VARIABLES
    host,         \* platform, whether the build has a signing key, release order
    release,      \* which upload each of the release's files is of; 0: absent
    run,          \* errand, position and answer of each process
    got,          \* what each process has fetched
    dest,         \* the installed path
    side,         \* the sibling names of each process: .new and .old
    stage         \* which processes have a staging directory

updVars == <<host, release, run, got, dest, side, stage>>

Old == 0                          \* the build installed at first
Garbled == 9                      \* a download that is not what was uploaded
Absent == 100                     \* no file
Torn == 101                       \* a file or bundle that is not whole
Builds == {Old, 1, 2}
Contents == Builds \cup {Garbled, Absent, Torn}
Positions == {"start", "asset", "sum", "verify", "copy", "swap", "in", "over", "unlink", "helper",
              "end"}
Results == {"none", "refused", "failed", "installed", "removed", "deferred", "killed"}

Is(p, pc) == run[p].pc = pc
Advance(p, pc) == run' = [run EXCEPT ![p].pc = pc]
Defers(p) == run[p].deferred

\* A process that ends by itself drops its StageDir, unless it is kept.
Leaves(p, answer) ==
    /\ run' = [run EXCEPT ![p].pc = "end", ![p].res = answer]
    /\ stage' = stage \ {p}

\* cmp_version gives no order for a tag it cannot parse; that installs.
Verdict(order, force) ==
    CASE force -> "install"
      [] ~force /\ order = "equal" -> "up_to_date"
      [] ~force /\ order = "greater" -> "older"
      [] OTHER -> "install"

-----------------------------------------------------------------------------
(* Resolving and fetching.                                                 *)

\* prepare_update: every file the build will need must be in the release; a
\* managed install or a failed request refuses as well.
Prepare(p) ==
    /\ Is(p, "start") /\ run[p].errand # "remove"
    /\ \/ /\ release.asset # 0 /\ release.sum # 0 /\ (host.keyed => release.sig # 0)
          /\ Verdict(host.order, run[p].errand = "force") = "install"
          /\ Advance(p, "asset") /\ UNCHANGED stage
       \/ Leaves(p, "refused")
    /\ UNCHANGED <<host, release, got, dest, side>>

\* StageDir::create and download_to.
FetchAsset(p) ==
    /\ Is(p, "asset")
    /\ \/ /\ \E b \in {release.asset, Garbled} : got' = [got EXCEPT ![p].asset = b]
          /\ stage' = stage \cup {p} /\ Advance(p, "sum")
       \/ Leaves(p, "failed") /\ UNCHANGED got
    /\ UNCHANGED <<host, release, dest, side>>

FetchSum(p) ==
    /\ Is(p, "sum")
    /\ \/ got' = [got EXCEPT ![p].sum = release.sum] /\ Advance(p, "verify") /\ UNCHANGED stage
       \/ Leaves(p, "failed") /\ UNCHANGED got
    /\ UNCHANGED <<host, release, dest, side>>

\* verify_release_signature: of the checksum file, by this build's key.
Signed(p) == host.keyed => release.sig = got[p].sum

\* Mutant: what is signed need not be hashed.
HashedUnlessKeyed(p) == host.keyed \/ got[p].asset = got[p].sum

\* verify_sha256.
Hashed(p) == got[p].asset = got[p].sum

\* The signature, then the hash, then prepare_artifact (unzip, find the
\* bundle), which may fail on its own.
Verify(p) ==
    /\ Is(p, "verify")
    /\ \/ Signed(p) /\ Hashed(p) /\ Advance(p, "copy") /\ UNCHANGED stage
       \/ Leaves(p, "failed")
    /\ UNCHANGED <<host, release, got, dest, side>>

-----------------------------------------------------------------------------
(* Installing.                                                             *)

\* The copy to the sibling name, for a binary and for a bundle; on an error
\* what was copied stays.
CopyAside(p) ==
    /\ Is(p, "copy") /\ host.platform # "windows"
    /\ \/ /\ side' = [side EXCEPT ![p] = [new |-> got[p].asset, old |-> Absent]]
          /\ Advance(p, "swap") /\ UNCHANGED stage
       \/ Leaves(p, "failed") /\ side' = [side EXCEPT ![p] = [new |-> Torn, old |-> Absent]]
    /\ UNCHANGED <<host, release, got, dest>>

\* A binary goes over the old one in one rename.
RenameBinary(p) ==
    /\ Is(p, "swap") /\ host.platform = "unix"
    /\ \/ dest' = side[p].new /\ Leaves(p, "installed")
       \/ Leaves(p, "failed") /\ UNCHANGED dest
    /\ side' = [side EXCEPT ![p].new = Absent]
    /\ UNCHANGED <<host, release, got>>

\* A bundle is moved aside first; without one the new bundle moves straight in.
MoveAside(p) ==
    /\ Is(p, "swap") /\ host.platform = "mac"
    /\ \/ /\ dest # Absent
          /\ side' = [side EXCEPT ![p].old = dest] /\ dest' = Absent
          /\ Advance(p, "in") /\ UNCHANGED stage
       \/ /\ dest = Absent
          /\ dest' = side[p].new /\ side' = [side EXCEPT ![p].new = Absent]
          /\ Leaves(p, "installed")
       \/ Leaves(p, "failed") /\ UNCHANGED <<dest, side>>
    /\ UNCHANGED <<host, release, got>>

\* The new bundle moves in and the backup goes; on an error the backup moves
\* back, if it can.  A directory cannot be renamed over another process's.
MoveIn(p) ==
    /\ Is(p, "in")
    /\ \/ /\ dest = Absent
          /\ dest' = side[p].new
          /\ side' = [side EXCEPT ![p] = [new |-> Absent, old |-> Absent]]
          /\ Leaves(p, "installed")
       \/ /\ dest = Absent
          /\ dest' = side[p].old /\ side' = [side EXCEPT ![p].old = Absent]
          /\ Leaves(p, "failed")
       \/ Leaves(p, "failed") /\ UNCHANGED <<dest, side>>
    /\ UNCHANGED <<host, release, got>>

\* Windows: the running executable is left to a helper that outlives this
\* process; any other path is copied over in place.
CopyOver(p) ==
    /\ Is(p, "copy") /\ host.platform = "windows"
    /\ \/ run' = [run EXCEPT ![p].pc = "end", ![p].res = "deferred", ![p].deferred = TRUE]
          /\ UNCHANGED <<dest, stage>>
       \/ dest' = Torn /\ Advance(p, "over") /\ UNCHANGED stage
    /\ UNCHANGED <<host, release, got, side>>

CopiedOver(p) ==
    /\ Is(p, "over")
    /\ \/ dest' = got[p].asset /\ Leaves(p, "installed")
       \/ Leaves(p, "failed") /\ UNCHANGED dest
    /\ UNCHANGED <<host, release, got, side>>

\* The helper, once the process is gone: Copy-Item, which may stop half way,
\* or Remove-Item; then the staging directory goes.  It may also give up.
HelperStarts(p) ==
    /\ Is(p, "end") /\ Defers(p)
    /\ run' = [run EXCEPT ![p].pc = "helper"]
    /\ dest' = IF run[p].errand = "remove" THEN Absent ELSE Torn
    /\ UNCHANGED <<host, release, got, side, stage>>

HelperEnds(p) ==
    /\ Is(p, "helper")
    /\ run' = [run EXCEPT ![p].pc = "end", ![p].deferred = FALSE]
    /\ \/ /\ dest' = IF run[p].errand = "remove" THEN dest ELSE got[p].asset
          /\ stage' = stage \ {p}
       \/ run[p].errand # "remove" /\ UNCHANGED <<dest, stage>>
    /\ UNCHANGED <<host, release, got, side>>

\* cmd_remove, once confirmed: a file is unlinked, a bundle deleted entry by
\* entry, the running executable of Windows left to the helper.
CmdRemove(p) ==
    /\ Is(p, "start") /\ run[p].errand = "remove"
    /\ \/ Leaves(p, "refused") /\ UNCHANGED dest
       \/ (host.platform = "unix" \/ dest = Absent)
          /\ Leaves(p, "removed") /\ dest' = Absent
       \/ host.platform = "mac" /\ dest # Absent /\ Advance(p, "unlink") /\ dest' = Torn
          /\ UNCHANGED stage
       \/ host.platform = "windows" /\ UNCHANGED dest /\ stage' = stage \cup {p}
          /\ run' = [run EXCEPT ![p].pc = "end", ![p].res = "deferred", ![p].deferred = TRUE]
    /\ UNCHANGED <<host, release, got, side>>

Unlinked(p) ==
    /\ Is(p, "unlink")
    /\ \/ Leaves(p, "removed") /\ dest' = Absent
       \/ Leaves(p, "failed") /\ UNCHANGED dest
    /\ UNCHANGED <<host, release, got, side>>

\* A process is killed: nothing of it is cleaned up.
Dies(p) ==
    /\ ~Is(p, "end")
    /\ run' = [run EXCEPT ![p].pc = "end", ![p].res = "killed", ![p].deferred = FALSE]
    /\ UNCHANGED <<host, release, got, dest, side, stage>>

\* The publisher uploads a release again, file after file.
Upload ==
    /\ \/ release.asset = 1 /\ release' = [release EXCEPT !.asset = 2]
       \/ release.asset = 2 /\ release.sum = 1 /\ release' = [release EXCEPT !.sum = 2]
       \/ release.sum = 2 /\ release.sig = 1 /\ release' = [release EXCEPT !.sig = 2]
    /\ UNCHANGED <<host, run, got, dest, side, stage>>

UpdNext ==
    \/ \E p \in Updaters :
        \/ Prepare(p) \/ FetchAsset(p) \/ FetchSum(p) \/ Verify(p)
        \/ CopyAside(p) \/ RenameBinary(p) \/ MoveAside(p) \/ MoveIn(p)
        \/ CopyOver(p) \/ CopiedOver(p) \/ HelperStarts(p) \/ HelperEnds(p)
        \/ CmdRemove(p) \/ Unlinked(p) \/ Dies(p)
    \/ Upload

UpdInit ==
    /\ host \in [platform : {"unix", "mac", "windows"}, keyed : BOOLEAN,
                 order : Orders]
    /\ release \in {[asset |-> 1, sum |-> 1, sig |-> s] : s \in {0, 1}}
    /\ run \in [Updaters -> {[errand |-> e, pc |-> "start", res |-> "none", deferred |-> FALSE]
                             : e \in Errands}]
    /\ got = [p \in Updaters |-> [asset |-> 0, sum |-> 0]]
    /\ dest = Old
    /\ side = [p \in Updaters |-> [new |-> Absent, old |-> Absent]]
    /\ stage = {}

UpdSpec == UpdInit /\ [][UpdNext]_updVars

-----------------------------------------------------------------------------
(* Properties.                                                             *)

UpdTypeOK ==
    /\ host \in [platform : {"unix", "mac", "windows"}, keyed : BOOLEAN, order : Orders]
    /\ release \in [asset : {1, 2}, sum : {1, 2}, sig : {0, 1, 2}]
    /\ run \in [Updaters -> [errand : Errands, pc : Positions, res : Results, deferred : BOOLEAN]]
    /\ got \in [Updaters -> [asset : Builds \cup {Garbled}, sum : Builds]]
    /\ dest \in Contents
    /\ side \in [Updaters -> [new : Contents, old : Contents]]
    /\ stage \subseteq Updaters

\* Whole: the old build, or one that was uploaded and, for a build with a
\* key, signed.
Trusted(b) == b = Old \/ b \in 1 .. (IF host.keyed THEN release.sig ELSE release.sum)

\* What removes or replaces in place and may be seen half way.
InPlace == host.platform = "windows" \/ \E p \in Updaters : run[p].errand = "remove"

\* The installed path holds the old build or a verified new one, whole, at
\* every moment and after every error or kill.  A bundle may be missing while
\* or after its swap was cut short, and is then whole beside its place; what
\* Windows copies over in place, and what is being removed, may be torn.
InstalledWhole ==
    \/ Trusted(dest)
    \/ dest = Absent /\ \E p \in Updaters : Trusted(side[p].old)
    \/ dest \in {Absent, Torn} /\ InPlace

\* A staging directory outlives only a process that was killed, or that left
\* its work to the helper.
StageGone ==
    \A p \in stage : Is(p, "end") => run[p].res \in {"killed", "deferred"}
=============================================================================
