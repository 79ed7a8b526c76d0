------------------------------ MODULE KaniInstall ------------------------------
(***************************************************************************)
(* install_kani_binary of rust_prover_tools/kani_binary.py, which composes *)
(* two calls of download_pinned (the frontend archive and the bundle, each *)
(* an instance of the abstract VerifiedStore), extract_frontend            *)
(* (KaniFrontend), cargo kani setup with the verified bundle and cargo     *)
(* kani --version.  Each phase starts when the one before it returned; an  *)
(* exception ends the run, and the same job is run again.                  *)
(*                                                                         *)
(* cargo kani is another program: setup fills a directory of its own (the  *)
(* Kani home) from the bundle it is given, with the cargo-kani it finds    *)
(* first on PATH, and may stop half way; --version is only asked to work.  *)
(* One installer at a time uses the cache and the install directory        *)
(* (DownloadStore shows what two of them do to the cache).                 *)
(***************************************************************************)
EXTENDS KaniFrontend

CONSTANT MaxTroubles   \* bound on failures outside extract_frontend

ASSUME InstallAssumption == MaxTroubles \in Nat

VARIABLES should_setup,    \* options.should_setup
          should_verify,   \* options.should_verify
          phase,           \* where install_kani_binary is
          frontend,        \* the frontend archive in the cache
          frontendCall,    \* its download_pinned
          bundle,          \* the bundle in the cache
          bundleCall,      \* its download_pinned
          home,            \* the release in the Kani home
          troubles         \* failures so far

options == <<should_setup, should_verify>>
cache == <<frontend, frontendCall, bundle, bundleCall>>
installVars == <<vars, options, phase, cache, home, troubles>>

Over == {"idle", "returned", "raised"}
Phases == Over \cup {"frontend", "bundle", "extract", "extracting", "setup", "verify"}

\* An archive is missing, something else, or the pinned asset.
Other == "other"
Archive == {None, Other, New}
Me == "installer"

FrontendAsset == INSTANCE VerifiedStore WITH
    Procs <- {Me}, Pinned <- New, Initial <- {None, Other},
    stored <- frontend, call <- frontendCall

BundleAsset == INSTANCE VerifiedStore WITH
    Procs <- {Me}, Pinned <- New, Initial <- {None, Other},
    stored <- bundle, call <- bundleCall

InstallInit == /\ Init
               /\ FrontendAsset!StoreInit
               /\ BundleAsset!StoreInit
               /\ should_setup \in BOOLEAN
               /\ should_verify \in BOOLEAN
               /\ phase = "idle"
               /\ home \in Versions \cup {None}
               /\ troubles = 0

Mishap == troubles < MaxTroubles /\ troubles' = troubles + 1

Enter(from, to) == phase = from /\ phase' = to

AfterSetup == IF should_verify THEN "verify" ELSE "returned"
AfterExtract == IF should_setup THEN "setup" ELSE AfterSetup

\* The host and the version are accepted and the first download begins.
Start == /\ phase \in Over
         /\ phase' = "frontend"
         /\ FrontendAsset!Call(Me)
         /\ UNCHANGED <<vars, options, bundle, bundleCall, home, troubles>>

\* An unsupported host, a version that is not pinned or that cannot be read.
Refuse == /\ phase \in Over
          /\ Mishap
          /\ phase' = "raised"
          /\ UNCHANGED <<vars, options, cache, home>>

FrontendStored == /\ phase = "frontend"
                  /\ frontend # New
                  /\ FrontendAsset!Replace(Me)
                  /\ UNCHANGED <<vars, options, phase, bundle, bundleCall, home, troubles>>

\* Mutant: the extraction does not wait for the bundle.
FrontendReturnedToExtract ==
    /\ Enter("frontend", "extract")
    /\ FrontendAsset!Return(Me)
    /\ BundleAsset!Call(Me)
    /\ UNCHANGED <<vars, options, home, troubles>>

FrontendReturned == /\ Enter("frontend", "bundle")
                    /\ FrontendAsset!Return(Me)
                    /\ BundleAsset!Call(Me)
                    /\ UNCHANGED <<vars, options, home, troubles>>

BundleStored == /\ phase = "bundle"
                /\ bundle # New
                /\ BundleAsset!Replace(Me)
                /\ UNCHANGED <<vars, options, phase, frontend, frontendCall, home, troubles>>

BundleReturned == /\ Enter("bundle", "extract")
                  /\ BundleAsset!Return(Me)
                  /\ UNCHANGED <<vars, options, frontend, frontendCall, home, troubles>>

\* A download raises, and with it the installer, or the installer is killed.
FrontendFails == /\ phase = "frontend"
                 /\ Mishap
                 /\ \/ FrontendAsset!Raise(Me) /\ phase' = "raised"
                    \/ FrontendAsset!Die(Me) /\ phase' = "idle"
                 /\ UNCHANGED <<vars, options, bundle, bundleCall, home>>

BundleFails == /\ phase = "bundle"
               /\ Mishap
               /\ \/ BundleAsset!Raise(Me) /\ phase' = "raised"
                  \/ BundleAsset!Die(Me) /\ phase' = "idle"
               /\ UNCHANGED <<vars, options, frontend, frontendCall, home>>

\* extract_frontend is called.
ExtractBegins == /\ Enter("extract", "extracting")
                 /\ Begin
                 /\ UNCHANGED <<options, cache, home, troubles>>

\* Mutant: the installer goes on whatever the extraction comes to.
ExtractAnyway == /\ phase = "extracting"
                 /\ pc \notin Resting
                 /\ Next
                 /\ \/ pc' \in Running /\ UNCHANGED phase
                    \/ pc' \in {"installed", "raised"} /\ phase' = AfterExtract
                    \/ pc' = "idle" /\ phase' = "idle"
                 /\ UNCHANGED <<options, cache, home, troubles>>

\* A step of it; the installer goes on when it returns, and ends as it ends
\* otherwise.
Extract == /\ phase = "extracting"
           /\ pc \notin Resting
           /\ Next
           /\ \/ pc' \in Running /\ UNCHANGED phase
              \/ pc' = "installed" /\ phase' = AfterExtract
              \/ pc' \in {"raised", "idle"} /\ phase' = pc'
           /\ UNCHANGED <<options, cache, home, troubles>>

\* cargo kani setup --use-local-bundle.
Setup == /\ Enter("setup", AfterSetup)
         /\ home' = IF target = Set(New) /\ bundle = New THEN New ELSE Partial
         /\ UNCHANGED <<vars, options, cache, troubles>>

\* It exits with another status, cannot be started, or is interrupted; killing
\* the installer does not kill it.
SetupFails == /\ phase = "setup"
              /\ Mishap
              /\ \/ phase' = "raised" /\ home' \in {home, Partial}
                 \/ phase' = "idle" /\ home' \in {home, Partial, New}
              /\ UNCHANGED <<vars, options, cache>>

\* cargo kani --version.
Verify == /\ Enter("verify", "returned")
          /\ UNCHANGED <<vars, options, cache, home, troubles>>

\* It fails: by accident, or because of a Kani home that is not the release's.
VerifyFails == /\ phase = "verify"
               /\ \/ Mishap
                  \/ home # New /\ UNCHANGED troubles
               /\ phase' \in {"raised", "idle"}
               /\ UNCHANGED <<vars, options, cache, home>>

\* Between two runs somebody else damages or removes an archive.
CacheDamaged == /\ phase \in Over
                /\ Mishap
                /\ \/ frontend' \in {None, Other} /\ UNCHANGED bundle
                   \/ bundle' \in {None, Other} /\ UNCHANGED frontend
                /\ UNCHANGED <<vars, options, phase, frontendCall, bundleCall, home>>

Downloading == \/ Start \/ FrontendStored \/ FrontendReturned \/ BundleStored
               \/ BundleReturned

InstallNext == \/ Downloading \/ Refuse \/ FrontendFails \/ BundleFails \/ CacheDamaged
               \/ ExtractBegins \/ Extract \/ Setup \/ SetupFails \/ Verify \/ VerifyFails

InstallSpec == InstallInit /\ [][InstallNext]_installVars

\* A running installer keeps running and the job is run again.
FairInstallSpec == /\ InstallSpec
                   /\ WF_installVars(Downloading \/ ExtractBegins \/ Setup \/ Verify)
                   /\ WF_installVars(Extract /\ Progress)

--------------------------------------------------------------------------------

InstallTypeOK == /\ TypeOK
                 /\ should_setup \in BOOLEAN
                 /\ should_verify \in BOOLEAN
                 /\ phase \in Phases
                 /\ frontend \in Archive
                 /\ bundle \in Archive
                 /\ frontendCall[Me] \in Over \cup {"working"}
                 /\ bundleCall[Me] \in Over \cup {"working"}
                 /\ home \in File
                 /\ troubles \in 0..MaxTroubles

\* Nothing is touched before both archives are verified: the executables and
\* the Kani home change only while both are the pinned ones, and the Kani home
\* is filled only by the whole new set of executables (_download_assets comes
\* before extract_frontend, and that before _run_setup).
AssetsFirst ==
    [][/\ UNCHANGED <<files, home>> \/ (frontend = New /\ bundle = New)
       /\ home' # home => target = Set(New)]_installVars

\* A run that returned has left the whole new set of executables and, if it
\* was asked to, the new release in the Kani home, whatever earlier runs of the
\* job left half done.
ReturnedIsReady == phase = "returned" => /\ target = Set(New)
                                         /\ should_setup => home = New

\* A job that sets Kani up and is run again after every failure succeeds in
\* the end, whatever partial archive, file or Kani home a run left.  (A job
\* that does not may meet the same broken Kani home in every run.)
Recovers == should_setup => []<>(phase = "returned")
================================================================================
