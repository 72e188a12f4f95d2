-------------------------- MODULE BootAttemptProofs --------------------------
(***************************************************************************)
(* For every set of images and every number of attempts: only authorised   *)
(* images are started, each selection at most once, and boot.json and the  *)
(* trust log say what happened, in the file before an image runs.          *)
(***************************************************************************)
EXTENDS BootAttempt, SequenceTheorems, TLAPS

\* The machine never changes, and the posture never forgets Secure Boot.
PostureSound ==
  /\ env \in [sb : BOOLEAN, mode : {"auto", "always", "never"}, quirk : BOOLEAN]
  /\ posture \in Postures
  /\ env.sb /\ pc # "detect" => posture # "Disabled"

\* Control only passes verification with what verification concluded: under
\* shim the image was accepted, and with Secure Boot on it was not skipped.
SeenSound ==
  pc \in {"load", "fallback"} /\ ~IsChainload(img) =>
    /\ seen.sb \in Postures
    /\ seen.sb = "ActiveWithShim" => img.shimOk
    /\ env.sb => seen.sb # "Disabled"

StartedSeq == started \in Seq([img : Images \cup {None}, by : {"native", "firmware"}, try : Nat])

AuthInv ==
  /\ PostureSound
  /\ SeenSound
  /\ StartedSeq
  /\ img \in Images \cup {None}
  /\ try \in Nat
  /\ Authorised

\* Appending an authorised start keeps the starts authorised.
LEMMA StartAuthorised ==
  ASSUME Authorised, StartedSeq, UNCHANGED env,
         NEW s \in [img : Images \cup {None}, by : {"native", "firmware"}, try : Nat],
         started' = Append(started, s),
         env.sb /\ env.mode # "always" => s.img.shimOk \/ s.img.dbOk
  PROVE  Authorised' /\ StartedSeq'
<1>1. StartedSeq'
  BY DEF StartedSeq
<1>2. Len(started') = Len(started) + 1 /\ started'[Len(started) + 1] = s
      /\ \A k \in 1 .. Len(started) : started'[k] = started[k]
  BY DEF StartedSeq
<1>3. Len(started) \in Nat
  BY DEF StartedSeq
<1>4. SUFFICES ASSUME env.sb, env.mode # "always", NEW k \in 1 .. Len(started')
               PROVE  started'[k].img.shimOk \/ started'[k].img.dbOk
  BY <1>1 DEF Authorised
<1>5. CASE k \in 1 .. Len(started)
  BY <1>2, <1>4, <1>5 DEF Authorised
<1>6. CASE k = Len(started) + 1
  BY <1>2, <1>4, <1>6
<1> QED
  BY <1>2, <1>3, <1>4, <1>5, <1>6

\* Before the attempt nothing has been started.
LEMMA AuthInit == Init => AuthInv
<1> SUFFICES ASSUME Init PROVE AuthInv
  OBVIOUS
<1>1. started = <<>> /\ Len(started) = 0
  BY DEF Init
<1>2. StartedSeq /\ Authorised
  BY <1>1 DEF StartedSeq, Authorised
<1> QED
  BY <1>2 DEF Init, AuthInv, PostureSound, SeenSound, Postures

\* Every action keeps the invariant.
LEMMA AuthStep == AuthInv /\ [Next]_vars => AuthInv'
<1> SUFFICES ASSUME AuthInv, [Next]_vars PROVE AuthInv'
  OBVIOUS
<1> USE DEF AuthInv
<1>0. ASSUME UNCHANGED <<env, started>> PROVE Authorised' /\ StartedSeq'
  BY <1>0 DEF Authorised, StartedSeq
<1>1. CASE Detect
  <2>1. env.sb => posture' # "Disabled"
    BY <1>1 DEF Detect, SbReads, ClassifySecureBoot, PostureSound
  <2>2. posture' \in Postures
    BY <1>1 DEF Detect, Postures
  <2> QED
    BY <1>0, <1>1, <2>1, <2>2 DEF Detect, PostureSound, SeenSound
<1>2. CASE LoadDrivers
  BY <1>0, <1>2 DEF LoadDrivers, PostureSound, SeenSound
<1>3. ASSUME NEW i \in Images, Select(i) PROVE AuthInv'
  <2>1. /\ pc = "menu" /\ pc' = "read" /\ try' = try + 1 /\ img' = i
        /\ UNCHANGED <<env, posture, started>>
    BY <1>3, Zenon DEF Select
  <2>2. try' \in Nat /\ img' \in Images \cup {None}
    BY <2>1
  <2>3. PostureSound' /\ SeenSound'
    BY <2>1 DEF PostureSound, SeenSound
  <2> QED
    BY <1>0, <2>1, <2>2, <2>3
<1>4. CASE ReportFails
  BY <1>0, <1>4 DEF ReportFails, PostureSound, SeenSound
<1>5. CASE ReadImage
  BY <1>0, <1>5 DEF ReadImage, PostureSound, SeenSound
<1>6. CASE ResolveKernel
  BY <1>0, <1>6 DEF ResolveKernel, PostureSound, SeenSound
<1>7. CASE ReadKernel
  BY <1>0, <1>7 DEF ReadKernel, PostureSound, SeenSound
<1>8. CASE MountIso
  BY <1>0, <1>8 DEF MountIso, PostureSound, SeenSound
<1>9. CASE Measure
  BY <1>0, <1>9 DEF Measure, PostureSound, SeenSound, IsChainload
<1>10. CASE Verify
  <2>1. Reprobed \in Postures /\ (env.sb => Reprobed # "Disabled")
    BY <1>10 DEF Verify, Reprobed, PostureSound, Postures
  <2>2. seen'.sb = Reprobed
    BY <1>10 DEF Verify
  <2>3. pc' = "load" => \E accepted \in {img.shimOk, FALSE} :
                          VerifyStatus(Reprobed, accepted) # "REJECTED"
    BY <1>10, Zenon DEF Verify
  <2>4. pc' = "load" /\ Reprobed = "ActiveWithShim" => img.shimOk
    BY <2>3, Zenon DEF VerifyStatus
  <2>5. pc' \in {"load", "failed"}
    BY <1>10 DEF Verify
  <2>6. SeenSound'
    BY <1>10, <2>1, <2>2, <2>4, <2>5 DEF Verify, SeenSound
  <2> QED
    BY <1>0, <1>10, <2>6 DEF Verify, PostureSound
<1>11. CASE ReadInitrdFails
  BY <1>0, <1>11 DEF ReadInitrdFails, PostureSound, SeenSound
<1>12. CASE NativeLoad
  <2> DEFINE s == [img |-> img, by |-> "native", try |-> try]
  <2>1. started' = Append(started, s) /\ UNCHANGED env
    BY <1>12 DEF NativeLoad, Start
  <2>2. env.sb /\ env.mode # "always" => img.shimOk
    <3>1. DecideLoadRoute(env.mode, seen.sb) = "native" /\ seen.sb \in Postures
      BY <1>12 DEF NativeLoad, LoadPath, SeenSound
    <3>2. env.mode \in {"auto", "always", "never"}
      BY DEF PostureSound
    <3>3. env.mode # "always" => seen.sb # "ActiveDirect"
      BY <3>1, <3>2 DEF DecideLoadRoute
    <3> QED
      BY <1>12, <3>1, <3>3 DEF NativeLoad, SeenSound, Postures
  <2>3. Authorised' /\ StartedSeq'
    BY <2>1, <2>2, StartAuthorised
  <2> QED
    BY <1>12, <2>3 DEF NativeLoad, Start, PostureSound, SeenSound
<1>13. CASE NativeFails
  BY <1>0, <1>13, Zenon DEF NativeFails, PostureSound, SeenSound
<1>14. ASSUME LoadImageMayAccept(img), Start("firmware"), UNCHANGED <<env, posture, try, img>>,
              pc # "detect"
       PROVE  AuthInv'
  <2> DEFINE s == [img |-> img, by |-> "firmware", try |-> try]
  <2>1. started' = Append(started, s) /\ UNCHANGED env
    BY <1>14 DEF Start
  <2>2. env.sb => img.shimOk \/ img.dbOk
    BY <1>14 DEF LoadImageMayAccept
  <2>3. Authorised' /\ StartedSeq'
    BY <2>1, <2>2, StartAuthorised
  <2> QED
    BY <1>14, <2>3 DEF Start, PostureSound, SeenSound
<1>15. CASE FirmwareLoad
  BY <1>14, <1>15 DEF FirmwareLoad, FirmwareTurn
<1>16. CASE FirmwareFails
  BY <1>0, <1>16 DEF FirmwareFails, FirmwareTurn, PostureSound, SeenSound
<1>17. CASE ChainLoad
  BY <1>14, <1>17 DEF ChainLoad
<1>18. CASE ChainFails
  BY <1>0, <1>18 DEF ChainFails, PostureSound, SeenSound
<1>19. CASE HandOff
  BY <1>0, <1>19 DEF HandOff, PostureSound, SeenSound
<1>20. CASE Return
  <2>1. pc' \in {"menu", "exit", "failed"}
    BY <1>20 DEF Return, AfterBoot
  <2> QED
    BY <1>0, <1>20, <2>1 DEF Return, PostureSound, SeenSound
<1>21. CASE Failed
  <2>1. pc' \in {"menu", "exit"}
    BY <1>21 DEF Failed, AfterBoot
  <2> QED
    BY <1>0, <1>21, <2>1 DEF Failed, PostureSound, SeenSound
<1>22. CASE UNCHANGED vars
  BY <1>0, <1>22 DEF vars, attemptVars, PostureSound, SeenSound, IsChainload
<1> QED
  BY <1>1, <1>2, <1>3, <1>4, <1>5, <1>6, <1>7, <1>8, <1>9, <1>10, <1>11, <1>12,
     <1>13, <1>15, <1>16, <1>17, <1>18, <1>19, <1>20, <1>21, <1>22, Zenon DEF Next

\* Whatever images the menu offers and however often tools return to it, with
\* Secure Boot on and native_pe not "always", LamBoot starts only images that
\* shim or the firmware db accepts.
THEOREM AuthorisedHolds == Spec => []Authorised
<1>1. AuthInv => Authorised
  BY DEF AuthInv
<1> QED
  BY <1>1, AuthInit, AuthStep, PTL DEF Spec
-----------------------------------------------------------------------------
(* One selection, one start *)

\* Where this selection has started nothing yet.
Unstarted == {"read", "kernel", "measure", "verify", "load", "fallback"}

\* The inductive invariant: the starts so far are of earlier selections until
\* this one's image is started.
OnceInv ==
  /\ try \in Nat
  /\ StartedSeq
  /\ img \in Images \cup {None}
  /\ \A k \in 1 .. Len(started) : started[k].try <= try
  /\ pc \in Unstarted => \A k \in 1 .. Len(started) : started[k].try < try
  /\ StartedOnce

\* A start carries its loader and the number of its selection.
LEMMA StartFields ==
  ASSUME StartedSeq, NEW k \in 1 .. Len(started)
  PROVE  started[k].try \in Nat /\ started[k].by \in {"native", "firmware"}
<1> DEFINE S == [img : Images \cup {None}, by : {"native", "firmware"}, try : Nat]
<1>1. started \in Seq(S)
  BY DEF StartedSeq
<1>2. \A s \in S : s.try \in Nat /\ s.by \in {"native", "firmware"}
  OBVIOUS
<1> HIDE DEF S
<1>3. started[k] \in S
  BY <1>1
<1> QED BY <1>2, <1>3

\* A step that starts nothing, makes no selection and does not come back from
\* a start.
LEMMA OnceAlone ==
  ASSUME OnceInv, UNCHANGED <<started, try, img>>, pc' \in Unstarted => pc \in Unstarted
  PROVE  OnceInv'
  BY Zenon DEF OnceInv, StartedOnce, StartedSeq

\* A start ends the part of a selection that may start an image.
LEMMA OnceStart ==
  ASSUME OnceInv, NEW by \in {"native", "firmware"}, Start(by), UNCHANGED <<try, img>>,
         pc \in Unstarted
  PROVE  OnceInv'
<1> DEFINE s == [img |-> img, by |-> by, try |-> try]
<1>1. s \in [img : Images \cup {None}, by : {"native", "firmware"}, try : Nat]
      /\ s.try = try
  BY DEF OnceInv
<1>2. started' = Append(started, s) /\ pc' = "running"
  BY DEF Start
<1> HIDE DEF s
<1>3. /\ StartedSeq'
      /\ Len(started') = Len(started) + 1 /\ Len(started) \in Nat
      /\ started'[Len(started) + 1] = s
      /\ \A k \in 1 .. Len(started) : started'[k] = started[k]
  BY <1>1, <1>2 DEF OnceInv, StartedSeq
<1>4. \A k \in 1 .. Len(started) : started'[k].try < try /\ started'[k].try \in Nat
  <2>1. \A k \in 1 .. Len(started) : started[k].try < try
    BY DEF OnceInv
  <2> QED BY <1>3, <2>1, StartFields DEF OnceInv
<1>5. \A k \in 1 .. Len(started') : started'[k].try <= try
  BY <1>1, <1>3, <1>4 DEF OnceInv
<1>6. StartedOnce'
  <2> SUFFICES ASSUME NEW j \in 1 .. Len(started'), NEW k \in 1 .. Len(started'),
                      started'[j].try = started'[k].try
               PROVE  j = k
    BY DEF StartedOnce
  <2>1. CASE j \in 1 .. Len(started) /\ k \in 1 .. Len(started)
    BY <2>1, <1>3 DEF OnceInv, StartedOnce
  <2>2. \A n \in 1 .. Len(started) : started'[n].try # try
    BY <1>4 DEF OnceInv
  <2>3. started'[Len(started) + 1].try = try
    BY <1>1, <1>3
  <2>4. CASE j = Len(started) + 1
    BY <2>2, <2>3, <2>4, <1>3
  <2>5. CASE k = Len(started) + 1
    BY <2>2, <2>3, <2>5, <1>3
  <2> QED BY <2>1, <2>4, <2>5, <1>3
<1> QED BY <1>2, <1>3, <1>5, <1>6, Zenon DEF OnceInv, Unstarted

\* Every action keeps the invariant.
LEMMA OnceStep == OnceInv /\ [Next]_vars => OnceInv'
<1> SUFFICES ASSUME OnceInv, [Next]_vars PROVE OnceInv'
  OBVIOUS
<1>1. ASSUME NEW i \in Images, Select(i) PROVE OnceInv'
  <2>1. try' = try + 1 /\ img' = i /\ started' = started
    BY <1>1, Zenon DEF Select
  <2>2. \A k \in 1 .. Len(started) : started[k].try < try + 1 /\ started[k].try <= try + 1
    BY StartFields DEF OnceInv
  <2>3. try + 1 \in Nat
    BY DEF OnceInv
  <2> QED BY <2>1, <2>2, <2>3 DEF OnceInv, StartedOnce, StartedSeq
<1>2. CASE NativeLoad
  BY <1>2, OnceStart DEF NativeLoad, Unstarted
<1>3. CASE FirmwareLoad
  BY <1>3, OnceStart DEF FirmwareLoad, FirmwareTurn, Unstarted
<1>4. CASE ChainLoad
  BY <1>4, OnceStart DEF ChainLoad, Unstarted
<1>5. CASE Detect \/ LoadDrivers \/ ReportFails \/ ReadImage \/ ResolveKernel \/ ReadKernel
           \/ MountIso
  BY <1>5, OnceAlone DEF Detect, LoadDrivers, ReportFails, ReadImage, ResolveKernel, ReadKernel,
     MountIso, Unstarted
<1>6. CASE Measure \/ Verify \/ ReadInitrdFails \/ NativeFails
  BY <1>6, OnceAlone, Zenon DEF Measure, Verify, ReadInitrdFails, NativeFails, Unstarted
<1>7. CASE FirmwareFails \/ ChainFails
  BY <1>7, OnceAlone DEF FirmwareFails, ChainFails, Unstarted
<1>8. CASE HandOff \/ Return \/ Failed
  <2>1. pc' \in {"os", "menu", "exit", "failed"} /\ UNCHANGED <<started, try, img>>
    BY <1>8 DEF HandOff, Return, Failed, AfterBoot
  <2> QED BY <2>1, OnceAlone DEF Unstarted
<1>9. CASE UNCHANGED vars
  BY <1>9, OnceAlone DEF vars, attemptVars
<1> QED BY <1>1, <1>2, <1>3, <1>4, <1>5, <1>6, <1>7, <1>8, <1>9 DEF Next

\* One selection starts one image: a kernel that ran and returned is not run
\* again by boot_linux's fallback, whatever it returned.
THEOREM StartedOnceHolds == Spec => []StartedOnce
<1>1. Init => OnceInv
  <2> SUFFICES ASSUME Init PROVE OnceInv
    OBVIOUS
  <2>1. started = <<>> /\ Len(started) = 0 /\ try = 0 /\ img = None
    BY DEF Init
  <2> QED BY <2>1 DEF OnceInv, StartedOnce, StartedSeq
<1>2. OnceInv => StartedOnce
  BY DEF OnceInv
<1> QED BY <1>1, <1>2, OnceStep, PTL DEF Spec
-----------------------------------------------------------------------------
(* boot.json *)

\* boot.json was written for the image in hand, with the posture of power-on.
Reported ==
  /\ report.loader = ReportLoader(img)
  /\ ~IsChainload(img) => report.via = VerifiedVia(posture)

\* What verification concluded, against the posture of power-on: the same, or
\* ShimLock was gone.
Concluded ==
  ~IsChainload(img) =>
    /\ seen.via = VerifiedVia(seen.sb)
    /\ \/ seen.sb = posture
       \/ posture = "ActiveWithShim" /\ ~shim

\* The image that runs, and who started it.
RanAs ==
  /\ Len(started) > 0
  /\ started[Len(started)].by = "native" => ReportLoader(img) = "native"

ReportInv ==
  /\ StartedSeq
  /\ try \in Nat /\ img \in Images \cup {None}
  /\ env.mode \in {"auto", "always", "never"}
  /\ pc \in Unstarted \cup {"running"} => Reported
  /\ pc \in {"load", "fallback", "running"} => Concluded
  /\ pc = "fallback" => ~IsChainload(img) /\ ReportLoader(img) = "native"
  /\ pc = "running" => RanAs

\* A start by one of the two loaders.
LEMMA ReportStart ==
  ASSUME ReportInv, NEW by \in {"native", "firmware"}, Start(by), pc \in {"load", "fallback"},
         UNCHANGED <<env, shim, posture, try, img, report, seen>>,
         by = "native" => ReportLoader(img) = "native"
  PROVE  ReportInv'
<1> DEFINE s == [img |-> img, by |-> by, try |-> try]
<1>1. s \in [img : Images \cup {None}, by : {"native", "firmware"}, try : Nat] /\ s.by = by
  BY DEF ReportInv
<1>2. started' = Append(started, s) /\ pc' = "running"
  BY DEF Start
<1> HIDE DEF s
<1>3. /\ StartedSeq'
      /\ Len(started') > 0 /\ started'[Len(started')] = s
  BY <1>1, <1>2, SMTT(30) DEF ReportInv, StartedSeq
<1>4. ReportLoader(img)' = ReportLoader(img)
  BY DEF ReportLoader, IsChainload
<1>5. RanAs'
  BY <1>1, <1>3, <1>4 DEF RanAs
<1>6. Reported' /\ Concluded'
  BY <1>4 DEF ReportInv, Reported, Concluded, Unstarted
<1> QED BY <1>2, <1>3, <1>5, <1>6 DEF ReportInv

\* A step of the same selection that starts nothing.
LEMMA ReportAlone ==
  ASSUME ReportInv, UNCHANGED <<env, posture, try, img, report, started>>,
         pc' \in Unstarted => pc \in Unstarted,
         pc' # "running",
         pc' \in {"load", "fallback"} => Concluded',
         pc' = "fallback" => ~IsChainload(img) /\ ReportLoader(img) = "native"
  PROVE  ReportInv'
<1>1. ReportLoader(img)' = ReportLoader(img) /\ IsChainload(img)' = IsChainload(img)
  BY DEF ReportLoader, IsChainload
<1>2. pc' \in Unstarted => Reported'
  BY <1>1 DEF ReportInv, Reported
<1> QED BY <1>1, <1>2 DEF ReportInv, StartedSeq

\* A native route means that boot.json says native.
LEMMA NativeReported ==
  ASSUME ReportInv, ~IsChainload(img), LoadPath = "native"
  PROVE  ReportLoader(img) = "native"
<1>1. env.mode # "never"
  BY DEF LoadPath, DecideLoadRoute
<1> QED BY <1>1 DEF ReportLoader

\* verify_kernel_bytes concludes from the posture, or from ShimLock's absence.
LEMMA ReportVerify == ReportInv /\ Verify => ReportInv'
<1> SUFFICES ASSUME ReportInv, Verify PROVE ReportInv'
  OBVIOUS
<1>1. PICK accepted \in {img.shimOk, FALSE} :
        LET status == VerifyStatus(Reprobed, accepted)
            via == IF status = "REJECTED" THEN "shim_rejected" ELSE VerifiedVia(Reprobed)
        IN  /\ seen' = [via |-> via, sb |-> Reprobed]
            /\ pc' = IF status = "REJECTED" THEN "failed" ELSE "load"
  BY Zenon DEF Verify
<1>2. pc' \in {"load", "failed"} /\ (pc' = "load" => seen'.via = VerifiedVia(seen'.sb))
      /\ seen'.sb = Reprobed
  BY <1>1
<1>3. UNCHANGED <<env, shim, posture, try, img, report, started>> /\ pc = "verify"
  BY DEF Verify
<1>4. Reprobed = posture \/ (posture = "ActiveWithShim" /\ ~shim)
  BY DEF Reprobed
<1>5. pc' = "load" => Concluded'
  BY <1>2, <1>3, <1>4 DEF Concluded
<1> QED BY <1>2, <1>3, <1>5, ReportAlone DEF Unstarted

\* measure_kernel_logged: only a chainload goes on without verification.
LEMMA ReportMeasure == ReportInv /\ Measure => ReportInv'
<1> SUFFICES ASSUME ReportInv, Measure PROVE ReportInv'
  OBVIOUS
<1>1. /\ UNCHANGED <<env, posture, try, img, report, started>> /\ pc = "measure"
      /\ pc' = IF IsChainload(img) THEN "load" ELSE "verify"
  BY DEF Measure
<1>2. IsChainload(img)' = IsChainload(img)
  BY <1>1 DEF IsChainload
<1>3. pc' \in {"load", "fallback"} => Concluded'
  BY <1>1, <1>2 DEF Concluded
<1> QED BY <1>1, <1>3, ReportAlone DEF Unstarted

\* native_load_and_start fails: the fallback is to a firmware load that
\* boot.json calls native.
LEMMA ReportNativeFails == ReportInv /\ NativeFails => ReportInv'
<1> SUFFICES ASSUME ReportInv, NativeFails PROVE ReportInv'
  OBVIOUS
<1>1. /\ UNCHANGED <<env, shim, posture, try, img, report, seen, started>> /\ pc = "load"
      /\ ~IsChainload(img) /\ LoadPath = "native" /\ pc' \in {"failed", "fallback"}
  BY Zenon DEF NativeFails
<1>2. ReportLoader(img) = "native"
  BY <1>1, NativeReported
<1>3. Concluded'
  BY <1>1 DEF ReportInv, Concluded, IsChainload
<1> QED BY <1>1, <1>2, <1>3, ReportAlone DEF Unstarted

\* Every action keeps the invariant.
LEMMA ReportStep == ReportInv /\ [Next]_vars => ReportInv'
<1> SUFFICES ASSUME ReportInv, [Next]_vars PROVE ReportInv'
  OBVIOUS
<1>1. ASSUME NEW i \in Images, Select(i) PROVE ReportInv'
  <2>1. /\ try' = try + 1 /\ img' = i /\ UNCHANGED <<started, env, posture>> /\ pc' = "read"
        /\ report' = [via |-> IF IsChainload(i) THEN "" ELSE VerifiedVia(posture),
                      loader |-> ReportLoader(i)]
    BY <1>1, Zenon DEF Select
  <2>2. Reported'
    BY <2>1, Zenon DEF Reported, ReportLoader, IsChainload
  <2>3. try' \in Nat /\ img' \in Images \cup {None}
    <3>1. try' = try + 1 /\ img' = i
      BY <2>1, Zenon
    <3> QED BY <3>1 DEF ReportInv
  <2>4. StartedSeq'
    BY <2>1, Zenon DEF ReportInv, StartedSeq
  <2> QED BY <2>1, <2>2, <2>3, <2>4, Zenon DEF ReportInv
<1>2. CASE NativeLoad
  BY <1>2, ReportStart, NativeReported DEF NativeLoad
<1>3. CASE FirmwareLoad
  BY <1>3, ReportStart DEF FirmwareLoad, FirmwareTurn
<1>4. CASE ChainLoad
  BY <1>4, ReportStart DEF ChainLoad
<1>5. CASE Verify \/ Measure \/ NativeFails
  BY <1>5, ReportVerify, ReportMeasure, ReportNativeFails
<1>6. CASE Detect \/ LoadDrivers \/ ReportFails
  BY <1>6 DEF Detect, LoadDrivers, ReportFails, ReportInv, StartedSeq, Unstarted
<1>7. CASE ReadImage \/ ResolveKernel \/ ReadKernel \/ MountIso
  BY <1>7, ReportAlone DEF ReadImage, ResolveKernel, ReadKernel, MountIso, Unstarted
<1>8. CASE ReadInitrdFails \/ FirmwareFails \/ ChainFails
  BY <1>8, ReportAlone DEF ReadInitrdFails, FirmwareFails, ChainFails, Unstarted
<1>9. CASE HandOff \/ Return \/ Failed
  <2>1. /\ pc' \in {"os", "menu", "exit", "failed"}
        /\ UNCHANGED <<env, posture, try, img, report, started>>
    BY <1>9, Zenon DEF HandOff, Return, Failed, AfterBoot
  <2> QED BY <2>1, ReportAlone DEF Unstarted
<1>10. CASE UNCHANGED vars
  BY <1>10 DEF vars, attemptVars, ReportInv, StartedSeq, Reported, Concluded, RanAs, ReportLoader, IsChainload
<1> QED BY <1>1, <1>2, <1>3, <1>4, <1>5, <1>6, <1>7, <1>8, <1>9, <1>10 DEF Next

\* boot.json, written before the image is looked at, errs in one way only: it
\* says shim_mok where ShimLock is gone, and native where the firmware loads.
THEOREM HonestReportHolds == Spec => []HonestReport
<1>1. Init => ReportInv
  BY DEF Init, ReportInv, StartedSeq, Unstarted
<1>2. ReportInv => HonestReport
  <2> SUFFICES ASSUME ReportInv, pc = "running" PROVE HonestReport
    BY DEF HonestReport
  <2>1. Reported /\ Concluded /\ RanAs
    BY DEF ReportInv
  <2>2. Len(started) \in 1 .. Len(started)
    BY <2>1 DEF RanAs, ReportInv, StartedSeq
  <2>3. started[Len(started)].by \in {"native", "firmware"}
    BY <2>2, StartFields DEF ReportInv
  <2>4. report.loader = "firmware" => started[Len(started)].by = "firmware"
    BY <2>1, <2>3 DEF Reported, RanAs
  <2>5. ~IsChainload(img) /\ report.via # seen.via => report.via = "shim_mok" /\ ~shim
    BY <2>1, Zenon DEF Reported, Concluded, VerifiedVia
  <2> QED BY <2>4, <2>5 DEF HonestReport
<1> QED BY <1>1, <1>2, ReportStep, PTL DEF Spec
-----------------------------------------------------------------------------
(* What the trust log holds *)

\* The records of this module and the lines they become.
NoteNames ==
  {"boot_start", "legacy_driver_loaded", "entry_selected", "boot_attempt", "kernel_load_phase",
   "iso_mounted", "iso_path_a_resolved", "kernel_measurement_skipped", "image_load_failed",
   "native_load_fallback", "legacy_loadimage_used", "kernel_load_failed"}
LoadNames == {"image_loaded_native", "image_loaded_firmware", "image_chainloaded"}
MeasureNames == {"kernel_measured", "kernel_measurement_skipped"}
Loud == LoadNames \cup {"kernel_measured", "image_verified"}
Vias == {"", "degraded_trust_sb_off", "degraded_trust_sb_direct", "shim_mok", "shim_rejected",
         "native_pe_loader", "firmware_loadimage"}
Statuses == {"", "SUCCESS", "SKIPPED", "DEFERRED", "REJECTED", "mismatch"}

EventSet == [name : NoteNames \cup Loud, via : Vias, status : Statuses, try : Nat]
Lines == [boot : Nat, seq : Nat, ev : EventSet]

Elems(s) == {s[k] : k \in 1 .. Len(s)}

\* Everything recorded since power-on, flushed or not, without its order.
Said == Elems(trust.committed) \cup Elems(trust.events)

LogTyped ==
  /\ trust \in [events : Seq(EventSet), committed : Seq(EventSet)]
  /\ logFile \in Seq(Lines)
  /\ bootNo \in Nat

\* The lines f carry the events c.
Carries(f, c) == Len(f) = Len(c) /\ \A k \in 1 .. Len(f) : f[k].ev = c[k]

\* The file holds what was flushed.
Written == Carries(logFile, trust.committed)

\* The length and the elements of a concatenation.
Joins(w, u, v) ==
  /\ Len(w) = Len(u) + Len(v) /\ Len(u) \in Nat /\ Len(v) \in Nat
  /\ \A i \in 1 .. Len(u) : w[i] = u[i]
  /\ \A j \in 1 .. Len(v) : w[Len(u) + j] = v[j]
  /\ \A i \in 1 .. Len(u) + Len(v) :
       i \in 1 .. Len(u) \/ \E j \in 1 .. Len(v) : i = Len(u) + j

\* A concatenation joins its parts.
LEMMA Joined ==
  ASSUME NEW S, NEW u \in Seq(S), NEW v \in Seq(S)
  PROVE  u \o v \in Seq(S) /\ Joins(u \o v, u, v)
<1>1. /\ u \o v \in Seq(S) /\ Len(u \o v) = Len(u) + Len(v)
      /\ \A i \in 1 .. Len(u) + Len(v) :
           (u \o v)[i] = IF i <= Len(u) THEN u[i] ELSE v[i - Len(u)]
  BY ConcatProperties
<1>2. Len(u) \in Nat /\ Len(v) \in Nat
  OBVIOUS
<1>3. \A i \in 1 .. Len(u) : (u \o v)[i] = u[i]
  BY <1>1, <1>2
<1>4. ASSUME NEW j \in 1 .. Len(v) PROVE (u \o v)[Len(u) + j] = v[j]
  <2>1. /\ Len(u) + j \in 1 .. Len(u) + Len(v)
        /\ ~(Len(u) + j <= Len(u)) /\ (Len(u) + j) - Len(u) = j
    BY <1>2
  <2> QED BY <1>1, <2>1
<1>5. ASSUME NEW i \in 1 .. Len(u) + Len(v), i \notin 1 .. Len(u)
      PROVE  \E j \in 1 .. Len(v) : i = Len(u) + j
  <2>1. i - Len(u) \in 1 .. Len(v) /\ i = Len(u) + (i - Len(u))
    BY <1>2, <1>5
  <2> QED BY <2>1, Zenon
<1> QED BY <1>1, <1>2, <1>3, <1>4, <1>5, Zenon DEF Joins

\* No element comes from elsewhere and none is lost.
LEMMA ElemsJoined ==
  ASSUME NEW S, NEW u \in Seq(S), NEW v \in Seq(S)
  PROVE  Elems(u \o v) = Elems(u) \cup Elems(v)
<1> DEFINE w == u \o v
<1>1. Joins(w, u, v)
  BY Joined
<1> USE <1>1 DEF Joins
<1> HIDE DEF w
<1>2. ASSUME NEW i \in 1 .. Len(w) PROVE w[i] \in Elems(u) \cup Elems(v)
  <2>1. CASE i \in 1 .. Len(u)
    BY <1>1, <2>1 DEF Elems
  <2>2. CASE \E j \in 1 .. Len(v) : i = Len(u) + j
    BY <1>1, <2>2 DEF Elems
  <2> QED BY <1>1, <2>1, <2>2
<1>3. ASSUME NEW i \in 1 .. Len(u) PROVE u[i] \in Elems(w)
  <2>1. i \in 1 .. Len(w) /\ w[i] = u[i]
    BY <1>1
  <2> QED BY <2>1 DEF Elems
<1>4. ASSUME NEW j \in 1 .. Len(v) PROVE v[j] \in Elems(w)
  <2>1. Len(u) + j \in 1 .. Len(w) /\ w[Len(u) + j] = v[j]
    BY <1>1
  <2> QED BY <2>1 DEF Elems
<1> QED BY <1>2, <1>3, <1>4, Zenon DEF Elems, w

\* EventsOf, over the records without their order.
LEMMA EventsSaid ==
  ASSUME LogTyped, NEW n
  PROVE  EventsOf(n) = {e \in Said : e.try = n}
<1>1. trust.committed \in Seq(EventSet) /\ trust.events \in Seq(EventSet)
  BY DEF LogTyped
<1>2. Elems(Trail) = Said
  BY <1>1, ElemsJoined DEF Trail, Said
<1> QED BY <1>2 DEF EventsOf, Elems

\* TrustLog::record, field by field.
LEMMA RecordedIs ==
  ASSUME NEW S, NEW t \in [events : S, committed : S], NEW evs
  PROVE  Recorded(t, evs) = [events |-> t.events \o evs, committed |-> t.committed]
<1> DEFINE more == t.events \o evs
<1>1. Recorded(t, evs) = [t EXCEPT !.events = more]
  BY DEF Recorded
<1> HIDE DEF more
<1>2. [t EXCEPT !.events = more] = [events |-> more, committed |-> t.committed]
  OBVIOUS
<1> QED BY <1>1, <1>2 DEF more

\* TrustLog::record adds the events and nothing else.
LEMMA LogSays ==
  ASSUME LogTyped, NEW evs \in Seq(EventSet), Log(evs)
  PROVE  LogTyped' /\ Said' = Said \cup Elems(evs) /\ (Written => Written')
<1>1. trust' = [events |-> trust.events \o evs, committed |-> trust.committed]
      /\ UNCHANGED <<logFile, bootNo>>
  BY RecordedIs, Zenon DEF Log, LogTyped
<1>2. trust.events \o evs \in Seq(EventSet)
  BY Joined DEF LogTyped
<1>3. LogTyped'
  BY <1>1, <1>2 DEF LogTyped
<1>4. Elems(trust.events \o evs) = Elems(trust.events) \cup Elems(evs)
  BY ElemsJoined DEF LogTyped
<1>5. Said' = Elems(trust.committed) \cup Elems(trust.events \o evs)
  BY <1>1 DEF Said, Elems
<1>6. Said' = Said \cup Elems(evs)
  BY <1>4, <1>5 DEF Said
<1>7. trust'.committed = trust.committed /\ logFile' = logFile
  BY <1>1
<1>8. Written => Written'
  BY <1>7 DEF Written
<1> QED BY <1>3, <1>6, <1>8

\* A function on 1 .. n is a sequence.
LEMMA Listed ==
  ASSUME NEW S, NEW n \in Nat, NEW f \in [1 .. n -> S]
  PROVE  f \in Seq(S) /\ Len(f) = n
  OBVIOUS

\* The lines of a flush are numbered lines of their events.
LEMMA PendingLines ==
  ASSUME bootNo \in Nat, NEW t \in [events : Seq(EventSet), committed : Seq(EventSet)]
  PROVE  /\ SerializePending(t) \in Seq(Lines) /\ Len(SerializePending(t)) = Len(t.events)
         /\ \A k \in 1 .. Len(t.events) : SerializePending(t)[k].ev = t.events[k]
<1> DEFINE n == Len(t.events)
           line(i) == [boot |-> bootNo, seq |-> Len(t.committed) + i - 1, ev |-> t.events[i]]
<1>1. n \in Nat /\ Len(t.committed) \in Nat /\ \A i \in 1 .. n : t.events[i] \in EventSet
  OBVIOUS
<1>2. \A i \in 1 .. n : line(i) \in Lines
  BY <1>1 DEF Lines
<1>3. SerializePending(t) = [i \in 1 .. n |-> line(i)]
  BY DEF SerializePending
<1>4. SerializePending(t) \in [1 .. n -> Lines]
  BY <1>2, <1>3
<1>5. SerializePending(t) \in Seq(Lines) /\ Len(SerializePending(t)) = n
  BY <1>1, <1>4, Listed
<1>6. \A k \in 1 .. n : SerializePending(t)[k].ev = t.events[k]
  BY <1>3
<1> QED BY <1>5, <1>6

\* Lines that carry events go on to when both grow alike.
LEMMA CarriesOn ==
  ASSUME NEW S, NEW T, NEW f \in Seq(S), NEW g \in Seq(S), NEW c \in Seq(T), NEW d \in Seq(T),
         Carries(f, c), Carries(g, d)
  PROVE  Carries(f \o g, c \o d)
<1> DEFINE x == f \o g
           y == c \o d
           n == Len(f)
<1>1. Joins(x, f, g)
  BY Joined, Zenon
<1>2. Joins(y, c, d)
  BY Joined, Zenon
<1> USE DEF Joins, Carries
<1> HIDE DEF x, y, n
<1>3. ASSUME NEW i \in 1 .. Len(x) PROVE x[i].ev = y[i]
  <2>1. CASE i \in 1 .. n
    BY <1>1, <1>2, <2>1, Zenon DEF n
  <2>2. ASSUME NEW j \in 1 .. Len(g), i = n + j PROVE x[i].ev = y[i]
    <3>1. n = Len(c) /\ j \in 1 .. Len(d) /\ g[j].ev = d[j]
      BY Zenon DEF n
    <3>2. x[n + j] = g[j]
      BY <1>1, Zenon DEF n
    <3>3. y[n + j] = d[j]
      BY <1>2, <3>1, Zenon
    <3> QED BY <2>2, <3>1, <3>2, <3>3, Zenon
  <2>3. i \in 1 .. n \/ \E j \in 1 .. Len(g) : i = n + j
    BY <1>1 DEF n
  <2> QED BY <2>1, <2>2, <2>3
<1> QED BY <1>1, <1>2, <1>3, Zenon DEF x, y

\* A flush adds the events too; whatever reaches the file are lines, and without
\* a failure the file goes on being a copy.
LEMMA FlushSays ==
  ASSUME LogTyped, NEW evs \in Seq(EventSet), LogAndFlush(evs)
  PROVE  /\ LogTyped' /\ Said' = Said \cup Elems(evs) /\ trust'.events = <<>>
         /\ ~shared /\ ~AppendFails /\ Written => Written'
<1> DEFINE t == Recorded(trust, evs)
           new == SerializePending(t)
<1>0. trust \in [events : Seq(EventSet), committed : Seq(EventSet)]
  BY DEF LogTyped
<1>1. /\ t = [events |-> trust.events \o evs, committed |-> trust.committed]
      /\ t.events = trust.events \o evs /\ t.committed = trust.committed
  <2>1. t = [events |-> trust.events \o evs, committed |-> trust.committed]
    BY <1>0, RecordedIs, Zenon
  <2> HIDE DEF t
  <2> QED BY <2>1
<1>2. /\ trust.events \in Seq(EventSet) /\ trust.committed \in Seq(EventSet)
      /\ trust.events \o evs \in Seq(EventSet)
  BY Joined DEF LogTyped
<1>3. /\ trust' = [events |-> <<>>, committed |-> trust.committed \o (trust.events \o evs)]
      /\ bootNo' = bootNo
      /\ \/ ~shared /\ logFile' = logFile \o new
         \/ shared /\ logFile' = logFile
         \/ ~shared /\ AppendFails /\ \E k \in 0 .. Len(t.events) :
              logFile' = logFile \o SubSeq(new, 1, k)
  BY <1>1, Zenon DEF LogAndFlush, Flush, Drained
<1>4. /\ new \in Seq(Lines) /\ Len(new) = Len(trust.events \o evs)
      /\ \A k \in 1 .. Len(new) : new[k].ev = (trust.events \o evs)[k]
  <2>1. t \in [events : Seq(EventSet), committed : Seq(EventSet)] /\ bootNo \in Nat
    BY <1>1, <1>2 DEF LogTyped
  <2> HIDE DEF t
  <2>2. /\ new \in Seq(Lines) /\ Len(new) = Len(t.events)
        /\ \A k \in 1 .. Len(t.events) : new[k].ev = t.events[k]
    BY <2>1, PendingLines
  <2> QED BY <1>1, <2>2, Zenon
<1> HIDE DEF t, new
<1>5. /\ trust.committed \o (trust.events \o evs) \in Seq(EventSet)
      /\ Elems(trust.committed \o (trust.events \o evs))
           = Elems(trust.committed) \cup (Elems(trust.events) \cup Elems(evs))
  <2> DEFINE more == trust.events \o evs
  <2>1. Elems(more) = Elems(trust.events) \cup Elems(evs)
    BY <1>2, ElemsJoined
  <2>2. more \in Seq(EventSet)
    BY <1>2
  <2> HIDE DEF more
  <2>3. Elems(trust.committed \o more) = Elems(trust.committed) \cup Elems(more)
    BY <1>2, <2>2, ElemsJoined
  <2>4. trust.committed \o more \in Seq(EventSet)
    BY <1>2, <2>2, Joined
  <2> QED BY <2>1, <2>3, <2>4 DEF more
<1>6. Said' = Said \cup Elems(evs)
  <2>1. Said' = Elems(trust.committed \o (trust.events \o evs)) \cup Elems(<<>>)
    BY <1>3, Zenon DEF Said, Elems
  <2>2. Elems(<<>>) = {}
    BY DEF Elems
  <2> QED BY <1>5, <2>1, <2>2 DEF Said
<1>7. LogTyped'
  <2>1. logFile' \in Seq(Lines)
    <3>1. \A k \in 0 .. Len(new) : SubSeq(new, 1, k) \in Seq(Lines)
      BY <1>4
    <3>2. Len(t.events) = Len(new)
      BY <1>1, <1>4
    <3> QED BY <1>3, <1>4, <3>1, <3>2, Joined, Zenon DEF LogTyped
  <2>2. trust' \in [events : Seq(EventSet), committed : Seq(EventSet)]
    BY <1>3, <1>5
  <2> QED BY <1>3, <2>1, <2>2 DEF LogTyped
<1>8. ASSUME ~shared, ~AppendFails, Written PROVE Written'
  <2> DEFINE more == trust.events \o evs
  <2>1. logFile' = logFile \o new /\ trust'.committed = trust.committed \o more
    BY <1>3, <1>8, Zenon
  <2>2. /\ logFile \in Seq(Lines) /\ new \in Seq(Lines)
        /\ trust.committed \in Seq(EventSet) /\ more \in Seq(EventSet)
        /\ Carries(logFile, trust.committed) /\ Carries(new, more)
    BY <1>2, <1>4, <1>8 DEF LogTyped, Written, Carries
  <2> HIDE DEF more
  <2>3. Carries(logFile \o new, trust.committed \o more)
    BY <2>2, CarriesOn, Zenon
  <2> QED BY <2>1, <2>3 DEF Written
<1> QED BY <1>3, <1>6, <1>7, <1>8

\* A step adds the events E, of the selection it leaves behind.
Adds(E) ==
  /\ LogTyped' /\ Said' = Said \cup E
  /\ E \subseteq EventSet /\ \A e \in E : e.try = try'
  /\ ~shared /\ ~AppendFails /\ Written => Written'

\* Each of the three ways to record a sequence adds its elements.
LEMMA Recording ==
  ASSUME LogTyped, NEW evs \in Seq(EventSet), \A e \in Elems(evs) : e.try = try',
         Log(evs) \/ LogAndFlush(evs) \/ LogAndFlushUnlessQuirk(evs)
  PROVE  Adds(Elems(evs))
<1>1. Log(evs) \/ LogAndFlush(evs)
  BY DEF LogAndFlushUnlessQuirk
<1>2. /\ LogTyped' /\ Said' = Said \cup Elems(evs)
      /\ ~shared /\ ~AppendFails /\ Written => Written'
  BY <1>1, LogSays, FlushSays
<1>3. Elems(evs) \subseteq EventSet
  BY DEF Elems
<1> QED BY <1>2, <1>3 DEF Adds

\* A step that leaves the log alone adds nothing.
LEMMA Silent ==
  ASSUME LogTyped, UNCHANGED logVars
  PROVE  Adds({})
  BY DEF Adds, LogTyped, Said, Elems, Written, logVars

\* The elements of short tuples.
TupleFacts(S, a, b, c) ==
  /\ <<>> \in Seq(S) /\ Elems(<<>>) = {}
  /\ <<a>> \in Seq(S) /\ Elems(<<a>>) = {a}
  /\ <<a, b>> \in Seq(S) /\ Elems(<<a, b>>) = {a, b}
  /\ <<a, b, c>> \in Seq(S) /\ Elems(<<a, b, c>>) = {a, b, c}

\* They are what they list.
LEMMA Tuples ==
  ASSUME NEW S, NEW a \in S, NEW b \in S, NEW c \in S
  PROVE  TupleFacts(S, a, b, c)
<1>1. <<>> \in Seq(S) /\ Elems(<<>>) = {}
  BY DEF Elems
<1>2. <<a>> \in Seq(S) /\ Elems(<<a>>) = {a}
  <2>1. Len(<<a>>) = 1 /\ 1 .. 1 = {1} /\ <<a>>[1] = a
    OBVIOUS
  <2> QED BY <2>1 DEF Elems
<1>3. <<a, b>> \in Seq(S) /\ Elems(<<a, b>>) = {a, b}
  <2>1. Len(<<a, b>>) = 2 /\ 1 .. 2 = {1, 2} /\ <<a, b>>[1] = a /\ <<a, b>>[2] = b
    OBVIOUS
  <2> QED BY <2>1 DEF Elems
<1>4. <<a, b, c>> \in Seq(S) /\ Elems(<<a, b, c>>) = {a, b, c}
  <2>1. Len(<<a, b, c>>) = 3 /\ 1 .. 3 = {1, 2, 3}
        /\ <<a, b, c>>[1] = a /\ <<a, b, c>>[2] = b /\ <<a, b, c>>[3] = c
    OBVIOUS
  <2> QED BY <2>1 DEF Elems
<1> QED BY <1>1, <1>2, <1>3, <1>4 DEF TupleFacts

\* Events that say nothing of a verdict, a load or a measurement made.
Quiet(E) == \A e \in E : e.status # "REJECTED" /\ e.name \notin Loud

\* What the trail rests on: the earlier invariants, and the types of the log.
TrailInv == AuthInv /\ OnceInv /\ ReportInv /\ LogTyped

\* A record is an event of the selection it is made in.
IsEvent(e, name, via, status) ==
  e \in EventSet /\ e.name = name /\ e.via = via /\ e.status = status /\ e.try = try

\* TrustEvent makes such records.
LEMMA EventTyped ==
  ASSUME try \in Nat, NEW name \in NoteNames \cup Loud, NEW via \in Vias, NEW status \in Statuses
  PROVE  IsEvent(TrustEvent(name, via, status), name, via, status)
  BY DEF TrustEvent, EventSet, IsEvent

\* Notes are quiet, unless they are of a measurement or a load.
LEMMA Notes ==
  ASSUME LogTyped, try \in Nat, try' = try,
         NEW a \in NoteNames, NEW b \in NoteNames, NEW c \in NoteNames,
         NEW evs \in {<<>>, <<Note(a)>>, <<Note(a), Note(b)>>, <<Note(a), Note(b), Note(c)>>},
         Log(evs) \/ LogAndFlush(evs) \/ LogAndFlushUnlessQuirk(evs)
  PROVE  Adds(Elems(evs)) /\ Quiet(Elems(evs))
<1>1. \A n \in NoteNames : Note(n) \in EventSet /\ Note(n).name = n /\ Note(n).status = ""
                               /\ Note(n).try = try
  <2> TAKE n \in NoteNames
  <2>1. n \in NoteNames \cup Loud /\ "" \in Vias /\ "" \in Statuses
    BY DEF Vias, Statuses
  <2>2. IsEvent(Note(n), n, "", "")
    BY <2>1, EventTyped, Zenon DEF Note
  <2> QED BY <2>2, Zenon DEF IsEvent
<1>2. evs \in Seq(EventSet) /\ Elems(evs) \subseteq {Note(a), Note(b), Note(c)}
  <2> DEFINE x == Note(a)
             y == Note(b)
             z == Note(c)
  <2>1. x \in EventSet /\ y \in EventSet /\ z \in EventSet
    BY <1>1, Zenon
  <2>2. evs \in {<<>>, <<x>>, <<x, y>>, <<x, y, z>>}
    OBVIOUS
  <2> HIDE DEF x, y, z
  <2>3. TupleFacts(EventSet, x, y, z)
    BY <2>1, Tuples
  <2>4. evs \in Seq(EventSet) /\ Elems(evs) \subseteq {x, y, z}
    BY <2>2, <2>3, Zenon DEF TupleFacts
  <2> QED BY <2>4 DEF x, y, z
<1>3. \A e \in Elems(evs) : e.try = try'
  BY <1>1, <1>2, Zenon
<1>4. Quiet(Elems(evs))
  <2>1. \A n \in NoteNames : n \notin Loud
    BY DEF NoteNames, Loud, LoadNames
  <2>2. "" # "REJECTED"
    OBVIOUS
  <2> QED BY <1>1, <1>2, <2>1, <2>2, Zenon DEF Quiet
<1> QED BY <1>2, <1>3, <1>4, Recording

\* The steps that record nothing.
LEMMA SilentSteps ==
  ASSUME LogTyped,
         ReportFails \/ ReadImage \/ ReadInitrdFails \/ ChainFails \/ HandOff \/ Return
           \/ UNCHANGED vars
  PROVE  \E E : Adds(E) /\ Quiet(E)
<1>1. UNCHANGED logVars
  BY DEF ReportFails, ReadImage, ReadInitrdFails, ChainFails, HandOff, Return, vars
<1>2. Quiet({})
  BY DEF Quiet
<1> QED BY <1>1, <1>2, Silent

\* The steps that record only notes.
LEMMA NoteSteps ==
  ASSUME LogTyped, try \in Nat,
         Detect \/ LoadDrivers \/ ResolveKernel \/ ReadKernel \/ MountIso \/ Failed
  PROVE  \E E : Adds(E) /\ Quiet(E)
<1> DEFINE Rec(evs) == Log(evs) \/ LogAndFlush(evs) \/ LogAndFlushUnlessQuirk(evs)
<1>0. try' = try
  BY DEF Detect, LoadDrivers, ResolveKernel, ReadKernel, MountIso, Failed
<1>1. ASSUME NEW a \in NoteNames, Rec(<<Note(a)>>) PROVE \E E : Adds(E) /\ Quiet(E)
  BY <1>0, <1>1, Notes, Zenon
<1>2. ASSUME NEW a \in NoteNames, NEW b \in NoteNames, Rec(<<Note(a), Note(b)>>)
      PROVE  \E E : Adds(E) /\ Quiet(E)
  BY <1>0, <1>2, Notes, Zenon
<1>3. ASSUME NEW a \in NoteNames, Rec(<<Note(a), Note(a), Note(a)>>)
      PROVE  \E E : Adds(E) /\ Quiet(E)
  BY <1>0, <1>3, Notes, Zenon
<1>4. ASSUME Rec(<<>>) PROVE \E E : Adds(E) /\ Quiet(E)
  <2>1. "boot_start" \in NoteNames
    BY DEF NoteNames
  <2> QED BY <1>0, <1>4, <2>1, Notes, Zenon
<1>5. /\ "boot_start" \in NoteNames /\ "legacy_driver_loaded" \in NoteNames
      /\ "kernel_load_phase" \in NoteNames /\ "iso_mounted" \in NoteNames
      /\ "iso_path_a_resolved" \in NoteNames /\ "kernel_load_failed" \in NoteNames
  BY DEF NoteNames
<1>6. CASE Detect \/ ResolveKernel \/ Failed
  <2>1. Rec(<<Note("boot_start")>>) \/ Rec(<<Note("kernel_load_phase")>>)
        \/ Rec(<<Note("kernel_load_failed")>>)
    BY <1>6 DEF Detect, ResolveKernel, Failed
  <2> QED BY <1>1, <1>5, <2>1
<1>7. CASE LoadDrivers
  <2>1. Rec(<<Note("legacy_driver_loaded")>>) \/ Rec(<<>>)
    BY <1>7 DEF LoadDrivers
  <2> QED BY <1>1, <1>4, <1>5, <2>1
<1>8. CASE ReadKernel
  <2>1. \/ Rec(<<Note("kernel_load_phase")>>)
        \/ Rec(<<Note("kernel_load_phase"), Note("kernel_load_phase"), Note("kernel_load_phase")>>)
    BY <1>8 DEF ReadKernel
  <2> QED BY <1>1, <1>3, <1>5, <2>1
<1>9. CASE MountIso
  <2>1. \/ Rec(<<>>) \/ Rec(<<Note("iso_mounted")>>)
        \/ Rec(<<Note("iso_mounted"), Note("iso_path_a_resolved")>>)
    BY <1>9 DEF MountIso
  <2> QED BY <1>1, <1>2, <1>4, <1>5, <2>1
<1> QED BY <1>6, <1>7, <1>8, <1>9

\* One record of any kind.
LEMMA OneRecord ==
  ASSUME LogTyped, try \in Nat, try' = try,
         NEW name \in NoteNames \cup Loud, NEW via \in Vias, NEW status \in Statuses,
         LET evs == <<TrustEvent(name, via, status)>>
         IN  Log(evs) \/ LogAndFlush(evs) \/ LogAndFlushUnlessQuirk(evs)
  PROVE  /\ IsEvent(TrustEvent(name, via, status), name, via, status)
         /\ Adds({TrustEvent(name, via, status)})
<1> DEFINE e == TrustEvent(name, via, status)
<1>1. IsEvent(e, name, via, status)
  BY EventTyped
<1>2. Log(<<e>>) \/ LogAndFlush(<<e>>) \/ LogAndFlushUnlessQuirk(<<e>>)
  OBVIOUS
<1> HIDE DEF e
<1>3. e \in EventSet /\ e.try = try'
  BY <1>1 DEF IsEvent
<1>4. <<e>> \in Seq(EventSet) /\ Elems(<<e>>) = {e}
  BY <1>3, Tuples, Zenon DEF TupleFacts
<1>5. Adds(Elems(<<e>>))
  BY <1>2, <1>3, <1>4, Recording, Zenon
<1> QED BY <1>1, <1>4, <1>5 DEF e

\* A selection records two notes of its own.
LEMMA SelectSays ==
  ASSUME LogTyped, try \in Nat, NEW i, Select(i)
  PROVE  \E E : Adds(E) /\ Quiet(E)
<1> DEFINE x == [Note("entry_selected") EXCEPT !.try = try + 1]
           y == [Note("boot_attempt") EXCEPT !.try = try + 1]
<1>1. ASSUME NEW n \in {"entry_selected", "boot_attempt"}
      PROVE  LET z == [Note(n) EXCEPT !.try = try + 1]
             IN  /\ z \in EventSet /\ z.try = try + 1 /\ z.status # "REJECTED"
                 /\ z.name \notin Loud
  <2>1. n \in NoteNames /\ n \notin Loud
    BY DEF NoteNames, Loud, LoadNames
  <2>2. n \in NoteNames \cup Loud /\ "" \in Vias /\ "" \in Statuses /\ try + 1 \in Nat
    BY <2>1 DEF Vias, Statuses
  <2>3. Note(n) \in EventSet /\ Note(n).name = n /\ Note(n).status = ""
    <3>1. IsEvent(Note(n), n, "", "")
      BY <2>2, EventTyped, Zenon DEF Note
    <3> QED BY <3>1, Zenon DEF IsEvent
  <2>4. ASSUME NEW r \in EventSet, NEW u \in Nat
        PROVE  /\ [r EXCEPT !.try = u] \in EventSet /\ [r EXCEPT !.try = u].try = u
               /\ [r EXCEPT !.try = u].name = r.name /\ [r EXCEPT !.try = u].status = r.status
    BY DEF EventSet
  <2> QED BY <2>1, <2>2, <2>3, <2>4, Zenon
<1>2. /\ x \in EventSet /\ x.try = try + 1 /\ x.status # "REJECTED" /\ x.name \notin Loud
      /\ y \in EventSet /\ y.try = try + 1 /\ y.status # "REJECTED" /\ y.name \notin Loud
  BY <1>1, Zenon
<1>3. LogAndFlushUnlessQuirk(<<x, y>>) /\ try' = try + 1
  BY Zenon DEF Select
<1> HIDE DEF x, y
<1>4. <<x, y>> \in Seq(EventSet) /\ Elems(<<x, y>>) = {x, y}
  BY <1>2, Tuples, Zenon DEF TupleFacts
<1>5. Adds(Elems(<<x, y>>))
  BY <1>2, <1>3, <1>4, Recording, Zenon
<1>6. Quiet(Elems(<<x, y>>))
  BY <1>2, <1>4 DEF Quiet
<1> QED BY <1>5, <1>6

\* native_load_and_start's errors.
LEMMA NativeFailsSays ==
  ASSUME LogTyped, try \in Nat, NativeFails
  PROVE  \E E : Adds(E) /\ Quiet(E)
<1> DEFINE e(st) == TrustEvent("image_load_failed", "native_pe_loader", st)
           Rec(evs) == Log(evs) \/ LogAndFlush(evs) \/ LogAndFlushUnlessQuirk(evs)
<1>1. try' = try /\ (Rec(<<>>) \/ \E st \in {"", "mismatch"} : Rec(<<e(st)>>))
  BY Zenon DEF NativeFails
<1>2. CASE Rec(<<>>)
  <2>1. "boot_start" \in NoteNames
    BY DEF NoteNames
  <2> QED BY <1>1, <1>2, <2>1, Notes, Zenon
<1>3. ASSUME NEW st \in {"", "mismatch"}, Rec(<<e(st)>>) PROVE \E E : Adds(E) /\ Quiet(E)
  <2>1. /\ "image_load_failed" \in NoteNames \cup Loud /\ "native_pe_loader" \in Vias
        /\ st \in Statuses
    BY Zenon DEF NoteNames, Vias, Statuses
  <2>2. /\ IsEvent(e(st), "image_load_failed", "native_pe_loader", st)
        /\ Adds({e(st)})
    BY <1>1, <1>3, <2>1, OneRecord, Zenon
  <2>3. Quiet({e(st)})
    BY <2>2, Zenon DEF Quiet, IsEvent, Loud, LoadNames
  <2> QED BY <2>2, <2>3, Zenon
<1> QED BY <1>1, <1>2, <1>3, Zenon

\* What firmware_load_and_start records before LoadImage is quiet.
LEMMA FirmwareTrailQuiet ==
  ASSUME LogTyped, try \in Nat
  PROVE  /\ FirmwareTrail \in Seq(EventSet)
         /\ \A e \in Elems(FirmwareTrail) : e.try = try
         /\ Quiet(Elems(FirmwareTrail))
<1> DEFINE x == Note("native_load_fallback")
           y == Note("legacy_loadimage_used")
<1>1. IsEvent(x, "native_load_fallback", "", "") /\ IsEvent(y, "legacy_loadimage_used", "", "")
  <2>1. /\ "native_load_fallback" \in NoteNames \cup Loud
        /\ "legacy_loadimage_used" \in NoteNames \cup Loud
        /\ "" \in Vias /\ "" \in Statuses
    BY DEF NoteNames, Vias, Statuses
  <2> QED BY <2>1, EventTyped, Zenon DEF Note
<1>2. FirmwareTrail = (IF pc = "fallback" THEN <<x>> ELSE <<>>) \o <<y>>
  BY DEF FirmwareTrail
<1> HIDE DEF x, y
<1>3. x \in EventSet /\ y \in EventSet
  BY <1>1, Zenon DEF IsEvent
<1>4. TupleFacts(EventSet, x, y, y) /\ TupleFacts(EventSet, y, x, x)
  BY <1>3, Tuples
<1>5. ASSUME NEW u, u = <<x>> \/ u = <<>>
      PROVE  u \o <<y>> \in Seq(EventSet) /\ Elems(u \o <<y>>) \subseteq {x, y}
  <2>0. Elems(u) \subseteq {x, y} /\ Elems(<<y>>) = {y}
    BY <1>4, <1>5, Zenon DEF TupleFacts
  <2>1. u \in Seq(EventSet) /\ <<y>> \in Seq(EventSet)
    BY <1>4, <1>5, Zenon DEF TupleFacts
  <2> DEFINE w == <<y>>
  <2>2. w \in Seq(EventSet)
    BY <2>1, Zenon
  <2> HIDE DEF w
  <2>3. u \o w \in Seq(EventSet)
    BY <2>1, <2>2, Joined, Zenon
  <2>4. Elems(u \o w) = Elems(u) \cup Elems(w)
    BY <2>1, <2>2, ElemsJoined
  <2> QED BY <2>0, <2>3, <2>4, Zenon DEF w
<1>6. FirmwareTrail \in Seq(EventSet) /\ Elems(FirmwareTrail) \subseteq {x, y}
  BY <1>2, <1>5, Zenon
<1>7. Quiet({x, y})
  BY <1>1, Zenon DEF Quiet, IsEvent, Loud, LoadNames
<1> QED BY <1>1, <1>6, <1>7, Zenon DEF Quiet, IsEvent

\* LoadImage refuses the image.
LEMMA FirmwareFailsSays ==
  ASSUME LogTyped, try \in Nat, FirmwareFails
  PROVE  \E E : Adds(E) /\ Quiet(E)
<1>1. Log(FirmwareTrail) /\ try' = try
  BY DEF FirmwareFails
<1> QED BY <1>1, FirmwareTrailQuiet, Recording

\* A start that records who loaded the image.
LoadSays(name, via, l) ==
  /\ IsEvent(l, name, via, "SUCCESS")
  /\ \E Q : Quiet(Q) /\ Adds(Q \cup {l})

\* The three loads.
LEMMA FirmwareLoadSays ==
  ASSUME LogTyped, try \in Nat, FirmwareLoad
  PROVE  \E l : LoadSays("image_loaded_firmware", "firmware_loadimage", l)
<1> DEFINE l == TrustEvent("image_loaded_firmware", "firmware_loadimage", "SUCCESS")
<1>1. IsEvent(l, "image_loaded_firmware", "firmware_loadimage", "SUCCESS")
  <2>1. /\ "image_loaded_firmware" \in NoteNames \cup Loud /\ "firmware_loadimage" \in Vias
        /\ "SUCCESS" \in Statuses
    BY DEF Loud, LoadNames, Vias, Statuses
  <2> QED BY <2>1, EventTyped, Zenon
<1>2. LogAndFlush(FirmwareTrail \o <<l>>) /\ try' = try
  BY DEF FirmwareLoad
<1> HIDE DEF l
<1>3. l \in EventSet /\ l.try = try
  BY <1>1 DEF IsEvent
<1>4. <<l>> \in Seq(EventSet) /\ Elems(<<l>>) = {l}
  BY <1>3, Tuples, Zenon DEF TupleFacts
<1>5. /\ FirmwareTrail \o <<l>> \in Seq(EventSet)
      /\ Elems(FirmwareTrail \o <<l>>) = Elems(FirmwareTrail) \cup {l}
  <2>1. FirmwareTrail \in Seq(EventSet)
    BY FirmwareTrailQuiet
  <2>2. FirmwareTrail \o <<l>> \in Seq(EventSet)
    BY <1>4, <2>1, Joined, Zenon
  <2>3. Elems(FirmwareTrail \o <<l>>) = Elems(FirmwareTrail) \cup Elems(<<l>>)
    <3> DEFINE u == FirmwareTrail
               v == <<l>>
    <3>1. u \in Seq(EventSet) /\ v \in Seq(EventSet)
      BY <1>4, <2>1
    <3> HIDE DEF u, v
    <3>2. Elems(u \o v) = Elems(u) \cup Elems(v)
      BY <3>1, ElemsJoined
    <3> QED BY <3>2 DEF u, v
  <2> QED BY <1>4, <2>2, <2>3, Zenon
<1>6. \A e \in Elems(FirmwareTrail \o <<l>>) : e.try = try'
  BY <1>2, <1>3, <1>5, FirmwareTrailQuiet
<1>7. Adds(Elems(FirmwareTrail) \cup {l})
  BY <1>2, <1>5, <1>6, Recording, Zenon
<1> QED BY <1>1, <1>7, FirmwareTrailQuiet, Zenon DEF LoadSays

\* The native loader names the verdict it acted on.
LEMMA NativeLoadSays ==
  ASSUME LogTyped, try \in Nat, NativeLoad, seen.via \in Vias
  PROVE  \E l : LoadSays("image_loaded_native", seen.via, l)
<1> DEFINE l == TrustEvent("image_loaded_native", seen.via, "SUCCESS")
<1>1. LogAndFlushUnlessQuirk(<<l>>) /\ try' = try
  BY DEF NativeLoad
<1>2. "image_loaded_native" \in NoteNames \cup Loud /\ "SUCCESS" \in Statuses
  BY DEF Loud, LoadNames, Statuses
<1>3. IsEvent(l, "image_loaded_native", seen.via, "SUCCESS") /\ Adds({l})
  BY <1>1, <1>2, OneRecord, Zenon
<1>4. {} \cup {l} = {l} /\ Quiet({})
  BY DEF Quiet
<1> QED BY <1>3, <1>4 DEF LoadSays

\* chainload_efi names the firmware.
LEMMA ChainLoadSays ==
  ASSUME LogTyped, try \in Nat, ChainLoad
  PROVE  \E l : LoadSays("image_chainloaded", "firmware_loadimage", l)
<1> DEFINE l == TrustEvent("image_chainloaded", "firmware_loadimage", "SUCCESS")
<1>1. LogAndFlushUnlessQuirk(<<l>>) /\ try' = try
  BY DEF ChainLoad
<1>2. /\ "image_chainloaded" \in NoteNames \cup Loud /\ "firmware_loadimage" \in Vias
      /\ "SUCCESS" \in Statuses
  BY DEF Loud, LoadNames, Vias, Statuses
<1>3. IsEvent(l, "image_chainloaded", "firmware_loadimage", "SUCCESS") /\ Adds({l})
  BY <1>1, <1>2, OneRecord, Zenon
<1>4. {} \cup {l} = {l} /\ Quiet({})
  BY DEF Quiet
<1> QED BY <1>3, <1>4 DEF LoadSays

\* measure_kernel_logged says measured exactly when it extended PCR 4.
LEMMA MeasureSays ==
  ASSUME LogTyped, try \in Nat, Measure
  PROVE  \/ /\ pcr4' = pcr4 \cup {try}
            /\ \E l : IsEvent(l, "kernel_measured", "", "") /\ Adds({l})
         \/ /\ pcr4' = pcr4
            /\ \E l : IsEvent(l, "kernel_measurement_skipped", "", "") /\ Adds({l})
<1>1. /\ try' = try
      /\ \/ pcr4' = pcr4 \cup {try} /\ Log(<<TrustEvent("kernel_measured", "", "")>>)
         \/ pcr4' = pcr4 /\ Log(<<TrustEvent("kernel_measurement_skipped", "", "")>>)
  BY Zenon DEF Measure, Note
<1>2. /\ "kernel_measured" \in NoteNames \cup Loud
      /\ "kernel_measurement_skipped" \in NoteNames \cup Loud
      /\ "" \in Vias /\ "" \in Statuses
  BY DEF NoteNames, Loud, Vias, Statuses
<1> QED BY <1>1, <1>2, OneRecord, Zenon

\* The verdict, as verify_kernel_bytes records it.
VerdictSays(l, st) ==
  /\ \E via : IsEvent(l, "image_verified", via, st)
  /\ Adds({l})
  /\ st = "SUCCESS" => img.shimOk
  /\ st = "REJECTED" => pc' = "failed"

\* SUCCESS is ShimLock's, and a rejection ends the attempt.
LEMMA VerifySays ==
  ASSUME LogTyped, try \in Nat, posture \in Postures, Verify
  PROVE  \E l, st : VerdictSays(l, st)
<1>1. PICK accepted \in {img.shimOk, FALSE} :
        LET status == VerifyStatus(Reprobed, accepted)
            via == IF status = "REJECTED" THEN "shim_rejected" ELSE VerifiedVia(Reprobed)
        IN  /\ Log(<<TrustEvent("image_verified", via, status)>>)
            /\ pc' = IF status = "REJECTED" THEN "failed" ELSE "load"
  BY Zenon DEF Verify
<1> DEFINE st == VerifyStatus(Reprobed, accepted)
           via == IF st = "REJECTED" THEN "shim_rejected" ELSE VerifiedVia(Reprobed)
           l == TrustEvent("image_verified", via, st)
<1>2. Log(<<l>>) /\ (st = "REJECTED" => pc' = "failed") /\ try' = try
  BY <1>1 DEF Verify
<1>3. Reprobed \in Postures
  BY DEF Reprobed, Postures
<1>4. st \in Statuses /\ (st = "SUCCESS" => accepted)
  BY <1>3 DEF VerifyStatus, Postures, Statuses
<1>5. via \in Vias
  BY <1>3, Zenon DEF VerifiedVia, Postures, Vias
<1>6. "image_verified" \in NoteNames \cup Loud
  BY DEF Loud
<1> HIDE DEF st, via
<1>7. IsEvent(l, "image_verified", via, st) /\ Adds({l})
  BY <1>2, <1>4, <1>5, <1>6, OneRecord, Zenon
<1>8. st = "SUCCESS" => img.shimOk
  BY <1>1, <1>4, Zenon
<1> HIDE DEF l
<1> QED BY <1>2, <1>7, <1>8 DEF VerdictSays

\* At a native load the verdict is one verification gave.
LEMMA VerdictKept ==
  ASSUME TrailInv, pc \in {"load", "fallback"}, ~IsChainload(img)
  PROVE  /\ seen.via \in Vias /\ seen.via # "firmware_loadimage"
         /\ seen.via = "shim_mok" => img.shimOk
<1>1. seen.via = VerifiedVia(seen.sb)
  BY DEF TrailInv, ReportInv, Concluded
<1>2. seen.sb \in Postures /\ (seen.sb = "ActiveWithShim" => img.shimOk)
  BY DEF TrailInv, AuthInv, SeenSound
<1> QED BY <1>1, <1>2, Zenon DEF VerifiedVia, Postures, Vias

\* Every step of this module but the loads, measuring and verifying.
QuietNext ==
  \/ Detect \/ LoadDrivers \/ (\E i \in Images : Select(i)) \/ ReportFails
  \/ ReadImage \/ ResolveKernel \/ ReadKernel \/ MountIso
  \/ ReadInitrdFails \/ NativeFails \/ FirmwareFails \/ ChainFails
  \/ HandOff \/ Return \/ Failed \/ UNCHANGED vars

\* They add quiet events only.
LEMMA QuietSteps ==
  ASSUME TrailInv, QuietNext
  PROVE  \E E : Adds(E) /\ Quiet(E)
<1>1. LogTyped /\ try \in Nat
  BY DEF TrailInv, OnceInv
<1>2. CASE ReportFails \/ ReadImage \/ ReadInitrdFails \/ ChainFails \/ HandOff \/ Return
           \/ UNCHANGED vars
  BY <1>1, <1>2, SilentSteps
<1>3. CASE Detect \/ LoadDrivers \/ ResolveKernel \/ ReadKernel \/ MountIso \/ Failed
  BY <1>1, <1>3, NoteSteps
<1>4. CASE NativeFails \/ FirmwareFails
  BY <1>1, <1>4, NativeFailsSays, FirmwareFailsSays
<1>5. CASE \E i \in Images : Select(i)
  BY <1>1, <1>5, SelectSays
<1> QED BY <1>2, <1>3, <1>4, <1>5 DEF QuietNext

\* Every step adds events, and leaves the log well-formed.
LEMMA StepAdds ==
  ASSUME TrailInv, [Next]_vars
  PROVE  \E E : Adds(E)
<1>1. LogTyped /\ try \in Nat /\ posture \in Postures
  BY DEF TrailInv, OnceInv, AuthInv, PostureSound
<1>2. CASE QuietNext
  BY <1>2, QuietSteps
<1>3. CASE NativeLoad
  <2>1. seen.via \in Vias
    BY <1>3, VerdictKept DEF NativeLoad
  <2> QED BY <1>1, <1>3, <2>1, NativeLoadSays, Zenon DEF LoadSays
<1>4. CASE FirmwareLoad \/ ChainLoad
  BY <1>1, <1>4, FirmwareLoadSays, ChainLoadSays, Zenon DEF LoadSays
<1>5. CASE Measure
  BY <1>1, <1>5, MeasureSays, Zenon
<1>6. CASE Verify
  BY <1>1, <1>6, VerifySays, Zenon DEF VerdictSays
<1> QED BY <1>2, <1>3, <1>4, <1>5, <1>6 DEF Next, QuietNext

\* The types of the log are kept by every step.
LEMMA TrailStep == TrailInv /\ [Next]_vars => TrailInv'
<1> SUFFICES ASSUME TrailInv, [Next]_vars PROVE TrailInv'
  OBVIOUS
<1>1. LogTyped'
  BY StepAdds DEF Adds
<1>2. AuthInv' /\ OnceInv' /\ ReportInv'
  BY AuthStep, OnceStep, ReportStep DEF TrailInv
<1> QED BY <1>1, <1>2 DEF TrailInv

\* At power-on nothing is recorded.
LEMMA TrailInit == Init => TrailInv /\ Said = {} /\ Written /\ started = <<>>
<1> SUFFICES ASSUME Init PROVE TrailInv /\ Said = {} /\ Written /\ started = <<>>
  OBVIOUS
<1>1. /\ trust = [events |-> <<>>, committed |-> <<>>] /\ logFile = <<>> /\ bootNo = 1
      /\ started = <<>>
  BY DEF Init, LogInit, EmptyLog
<1>2. LogTyped
  BY <1>1 DEF LogTyped
<1>3. Said = {} /\ Written
  BY <1>1 DEF Said, Elems, Written, Carries
<1>4. AuthInv
  BY AuthInit
<1>5. OnceInv
  <2>1. Len(started) = 0 /\ try = 0 /\ img = None
    BY <1>1 DEF Init
  <2> QED BY <1>1, <2>1 DEF OnceInv, StartedOnce, StartedSeq
<1>6. ReportInv
  BY DEF Init, ReportInv, StartedSeq, Unstarted
<1> QED BY <1>1, <1>2, <1>3, <1>4, <1>5, <1>6 DEF TrailInv
-----------------------------------------------------------------------------
(* The trail is in the file before an image runs *)

\* The inductive invariant: without failed writes the file is a copy of what
\* was flushed, and an image runs with nothing left to flush.
AuditInv ==
  /\ ~shared /\ ~AppendFails => Written
  /\ pc \in {"running", "os"} /\ ~env.quirk => trust.events = <<>>

\* Every step keeps it.
LEMMA AuditStep == TrailInv /\ AuditInv /\ [Next]_vars => AuditInv'
<1> SUFFICES ASSUME TrailInv, AuditInv, [Next]_vars PROVE AuditInv'
  OBVIOUS
<1>1. ~shared /\ ~AppendFails /\ Written => Written'
  BY StepAdds DEF Adds
<1>2. ~shared' => ~shared
  BY Zenon DEF Next, vars, attemptVars, Detect, LoadDrivers, Select, ReportFails, ReadImage,
     ResolveKernel, ReadKernel, MountIso, Measure, Verify, ReadInitrdFails, NativeLoad,
     NativeFails, FirmwareLoad, FirmwareFails, ChainLoad, ChainFails, HandOff, Return, Failed
<1>3. ~shared' /\ ~AppendFails => Written'
  BY <1>1, <1>2 DEF AuditInv
<1>4. pc' \in {"running", "os"} /\ ~env'.quirk => trust'.events = <<>>
  <2>1. CASE NativeLoad \/ ChainLoad \/ FirmwareLoad
    <3> SUFFICES ASSUME ~env'.quirk PROVE trust'.events = <<>>
      OBVIOUS
    <3>1. env' = env
      BY <2>1 DEF NativeLoad, ChainLoad, FirmwareLoad
    <3>2. \E evs : LogAndFlush(evs)
      BY <2>1, <3>1 DEF NativeLoad, ChainLoad, FirmwareLoad, LogAndFlushUnlessQuirk
    <3> QED BY <3>2 DEF LogAndFlush, Flush, Drained
  <2>2. CASE HandOff \/ UNCHANGED vars
    BY <2>2, Zenon DEF HandOff, vars, attemptVars, logVars, AuditInv
  <2>3. CASE Return \/ Failed
    BY <2>3, Zenon DEF Return, Failed, AfterBoot
  <2>4. CASE Measure \/ Verify \/ NativeFails
    BY <2>4, Zenon DEF Measure, Verify, NativeFails
  <2>5. CASE Detect \/ LoadDrivers \/ (\E i \in Images : Select(i)) \/ ReportFails
             \/ ReadImage \/ ResolveKernel \/ ReadKernel \/ MountIso
    BY <2>5, Zenon DEF Detect, LoadDrivers, Select, ReportFails, ReadImage, ResolveKernel,
       ReadKernel,
       MountIso
  <2>6. CASE ReadInitrdFails \/ FirmwareFails \/ ChainFails
    BY <2>6, Zenon DEF ReadInitrdFails, FirmwareFails, ChainFails
  <2> QED BY <2>1, <2>2, <2>3, <2>4, <2>5, <2>6 DEF Next
<1> QED BY <1>3, <1>4 DEF AuditInv

\* When an image runs, everything recorded so far is in the file, in order,
\* unless the firmware is quirky, the ESP holds the ISO or a write failed:
\* each of the three loads flushes before it starts the image, and no earlier
\* flush left a line out.
THEOREM AuditBeforeStartHolds == Spec => []AuditBeforeStart
<1>1. Init => TrailInv /\ AuditInv
  <2> SUFFICES ASSUME Init PROVE TrailInv /\ AuditInv
    OBVIOUS
  <2>1. pc = "detect"
    BY DEF Init
  <2> QED BY <2>1, TrailInit DEF AuditInv
<1>2. TrailInv /\ AuditInv => AuditBeforeStart
  <2> SUFFICES ASSUME TrailInv, AuditInv,
                      pc \in {"running", "os"}, ~env.quirk, ~shared, ~AppendFails
               PROVE  /\ trust.events = <<>>
                      /\ [k \in 1 .. Len(logFile) |-> logFile[k].ev] = trust.committed
    BY DEF AuditBeforeStart
  <2>1. trust.events = <<>> /\ Carries(logFile, trust.committed)
    BY DEF AuditInv, Written
  <2>2. trust.committed \in Seq(EventSet)
    BY DEF TrailInv, LogTyped
  <2>3. trust.committed = [k \in 1 .. Len(trust.committed) |-> trust.committed[k]]
    BY <2>2
  <2> QED BY <2>1, <2>3 DEF Carries
<1> QED BY <1>1, <1>2, TrailStep, AuditStep, PTL DEF Spec
-----------------------------------------------------------------------------
(* The trail says what happened *)

\* The records of the start s among S; sb says whether Secure Boot is on.
Told(S, sb, s) ==
  /\ \A e \in S : e.try = s.try => e.status # "REJECTED"
  /\ \E e \in S : e.try = s.try /\ e.name \in MeasureNames
  /\ \E l \in S :
       /\ l.try = s.try /\ l.name \in LoadNames
       /\ \A e \in S : e.try = s.try /\ e.name \in LoadNames => e = l
       /\ (l.name = "image_loaded_native") = (s.by = "native")
       /\ l.via = "shim_mok" => s.img.shimOk
       /\ l.via = "firmware_loadimage" => ~sb \/ s.img.shimOk \/ s.img.dbOk

\* The inductive invariant: nothing is said of later selections; until this
\* one's image is started nothing is said of its load; and it comes to
\* verification and loading only measured, or logged as not.
RecordsInv ==
  /\ \A e \in Said : e.try <= try
  /\ pcr4 \subseteq 0 .. try
  /\ \A n \in 0 .. try : (\E e \in Said : e.try = n /\ e.name = "kernel_measured") <=> n \in pcr4
  /\ \A e \in Said : e.try = try /\ e.name = "image_verified" /\ e.status = "SUCCESS"
                       => img.shimOk
  /\ pc \in Unstarted =>
       \A e \in Said : e.try = try => e.status # "REJECTED" /\ e.name \notin LoadNames
  /\ pc \in {"verify", "load", "fallback"} =>
       \E e \in Said : e.try = try /\ e.name \in MeasureNames
  /\ \A k \in 1 .. Len(started) : Told(Said, env.sb, started[k])

\* Quiet events take nothing back.
LEMMA ToldStays ==
  ASSUME NEW S, NEW E, NEW sb, NEW s, Told(S, sb, s),
         \A e \in E : e.try = s.try => e.status # "REJECTED" /\ e.name \notin LoadNames
  PROVE  Told(S \cup E, sb, s)
<1> DEFINE T == S \cup E
<1>1. \A e \in T : e.try = s.try => e.status # "REJECTED"
  BY DEF Told
<1>2. \E e \in T : e.try = s.try /\ e.name \in MeasureNames
  BY DEF Told
<1>3. PICK l \in S :
       /\ l.try = s.try /\ l.name \in LoadNames
       /\ \A e \in S : e.try = s.try /\ e.name \in LoadNames => e = l
       /\ (l.name = "image_loaded_native") = (s.by = "native")
       /\ l.via = "shim_mok" => s.img.shimOk
       /\ l.via = "firmware_loadimage" => ~sb \/ s.img.shimOk \/ s.img.dbOk
  BY DEF Told
<1>4. l \in T /\ \A e \in T : e.try = s.try /\ e.name \in LoadNames => e = l
  BY <1>3
<1> HIDE DEF T
<1>5. Told(T, sb, s)
  BY <1>1, <1>2, <1>3, <1>4, Zenon DEF Told
<1> QED BY <1>5 DEF T

\* What was said so far are events.
LEMMA SaidTyped == LogTyped => Said \subseteq EventSet
<1>1. ASSUME NEW s \in Seq(EventSet) PROVE Elems(s) \subseteq EventSet
  <2>1. \A k \in 1 .. Len(s) : s[k] \in EventSet
    BY ElementOfSeq
  <2> QED BY <2>1, Zenon DEF Elems
<1>2. LogTyped => trust.events \in Seq(EventSet) /\ trust.committed \in Seq(EventSet)
  BY DEF LogTyped
<1> QED BY <1>1, <1>2, Zenon DEF Said

\* A sequence with one more element.
LEMMA OneMore ==
  ASSUME NEW S, NEW s \in Seq(S), NEW x \in S
  PROVE  /\ Len(Append(s, x)) = Len(s) + 1 /\ Len(s) \in Nat
         /\ Append(s, x)[Len(s) + 1] = x
         /\ \A k \in 1 .. Len(s) : Append(s, x)[k] = s[k]
  BY AppendProperties, LenProperties

\* A selection starts with a clean slate.
LEMMA RecordsSelect ==
  ASSUME TrailInv, RecordsInv, NEW i \in Images, Select(i)
  PROVE  RecordsInv'
<1>1. /\ pc' = "read" /\ try' = try + 1 /\ img' = i /\ UNCHANGED <<env, pcr4, started>>
      /\ try \in Nat
  BY Zenon DEF Select, TrailInv, OnceInv
<1>2. PICK E : Adds(E) /\ Quiet(E)
  BY QuietSteps DEF QuietNext
<1>3. Said' = Said \cup E /\ \A e \in E : e.try = try + 1 /\ e.status # "REJECTED" /\ e.name \notin Loud
  BY <1>1, <1>2 DEF Adds, Quiet
<1>4. \A e \in Said : e.try \in Nat /\ e.try <= try
  <2>1. Said \subseteq EventSet
    BY SaidTyped, Zenon DEF TrailInv
  <2> QED BY <2>1, Zenon DEF RecordsInv, EventSet
<1>5. (\A e \in Said : e.try <= try)' /\ (pcr4 \subseteq 0 .. try)'
  BY <1>1, <1>3, <1>4 DEF RecordsInv
<1>6. ASSUME NEW n \in 0 .. try + 1
      PROVE  (\E e \in Said' : e.try = n /\ e.name = "kernel_measured") <=> n \in pcr4
  <2>1. CASE n \in 0 .. try
    BY <1>1, <1>3, <2>1 DEF RecordsInv, Loud
  <2>2. CASE n = try + 1
    <3>1. n \notin pcr4
      BY <1>1, <2>2 DEF RecordsInv
    <3>2. \A e \in Said : e.try # n
      BY <1>1, <1>4, <2>2
    <3> QED BY <1>3, <3>1, <3>2 DEF Loud
  <2> QED BY <1>1, <2>1, <2>2
<1>7. ASSUME NEW e \in Said', e.try = try + 1
      PROVE  e.status # "REJECTED" /\ e.name \notin Loud
  BY <1>1, <1>3, <1>4, <1>7
<1>8. ASSUME NEW k \in 1 .. Len(started) PROVE Told(Said', env.sb, started[k])
  <2>1. Told(Said, env.sb, started[k])
    BY DEF RecordsInv
  <2> QED BY <1>3, <2>1, ToldStays, Zenon DEF Loud
<1> QED BY <1>1, <1>5, <1>6, <1>7, <1>8 DEF RecordsInv, Loud, Unstarted

\* A step of the same selection that starts nothing, and whose records are no
\* loads: what it says of verification and measurement must be true.
LEMMA RecordsAlone ==
  ASSUME TrailInv, RecordsInv, UNCHANGED <<env, try, img, started>>, NEW E, Adds(E),
         \A e \in E : e.name \notin LoadNames,
         \A e \in E : e.name = "image_verified" /\ e.status = "SUCCESS" => img.shimOk,
         \A e \in E : e.status = "REJECTED" => pc \in Unstarted /\ pc' \notin Unstarted,
         \/ pcr4' = pcr4 /\ \A e \in E : e.name # "kernel_measured"
         \/ pcr4' = pcr4 \cup {try} /\ \E e \in E : e.name = "kernel_measured",
         pc' \in Unstarted => pc \in Unstarted,
         pc' \in {"verify", "load", "fallback"} =>
           pc \in {"verify", "load", "fallback"} \/ \E e \in E : e.name \in MeasureNames
  PROVE  RecordsInv'
<1>1. Said' = Said \cup E /\ \A e \in E : e.try = try
  BY DEF Adds
<1>2. try \in Nat
  BY DEF TrailInv, OnceInv
<1>3. (\A e \in Said : e.try <= try)' /\ (pcr4 \subseteq 0 .. try)'
  <2>1. try <= try /\ try \in 0 .. try
    BY <1>2
  <2>2. \A e \in Said' : e.try <= try
    BY <1>1, <2>1 DEF RecordsInv
  <2>3. pcr4' \subseteq 0 .. try
    BY <2>1, Zenon DEF RecordsInv
  <2> QED BY <2>2, <2>3
<1>4. ASSUME NEW n \in 0 .. try
      PROVE  (\E e \in Said' : e.try = n /\ e.name = "kernel_measured") <=> n \in pcr4'
  <2>1. (\E e \in Said : e.try = n /\ e.name = "kernel_measured") <=> n \in pcr4
    BY DEF RecordsInv
  <2> QED BY <1>1, <2>1
<1>5. ASSUME NEW e \in Said', e.try = try, e.name = "image_verified", e.status = "SUCCESS"
      PROVE  img.shimOk
  BY <1>1, <1>5 DEF RecordsInv
<1>6. ASSUME pc' \in Unstarted, NEW e \in Said', e.try = try
      PROVE  e.status # "REJECTED" /\ e.name \notin LoadNames
  BY <1>1, <1>6 DEF RecordsInv
<1>7. ASSUME pc' \in {"verify", "load", "fallback"}
      PROVE  \E e \in Said' : e.try = try /\ e.name \in MeasureNames
  BY <1>1, <1>7 DEF RecordsInv
<1>8. ASSUME NEW k \in 1 .. Len(started) PROVE Told(Said', env.sb, started[k])
  <2>1. Told(Said, env.sb, started[k])
    BY DEF RecordsInv
  <2>2. ASSUME NEW e \in E, e.try = started[k].try PROVE e.status # "REJECTED"
    <3> SUFFICES ASSUME e.status = "REJECTED" PROVE FALSE
      OBVIOUS
    <3>1. pc \in Unstarted
      OBVIOUS
    <3>2. started[k].try < try
      BY <3>1 DEF TrailInv, OnceInv
    <3> QED BY <1>1, <1>2, <2>2, <3>2
  <2>3. \A e \in E : e.try = started[k].try => e.status # "REJECTED" /\ e.name \notin LoadNames
    BY <2>2
  <2> QED BY <1>1, <2>1, <2>3, ToldStays, Zenon
<1>9. (\A n \in 0 .. try : (\E e \in Said : e.try = n /\ e.name = "kernel_measured") <=> n \in pcr4)'
  BY <1>4
<1>10. (\A k \in 1 .. Len(started) : Told(Said, env.sb, started[k]))'
  BY <1>8
<1> QED BY <1>3, <1>5, <1>6, <1>7, <1>9, <1>10 DEF RecordsInv

\* Quiet steps other than a selection.
LEMMA RecordsQuiet ==
  ASSUME TrailInv, RecordsInv, QuietNext, ~ \E i \in Images : Select(i)
  PROVE  RecordsInv'
<1>1. PICK E : Adds(E) /\ Quiet(E)
  BY QuietSteps
<1>2. UNCHANGED <<env, try, img, started, pcr4>>
  BY Zenon DEF QuietNext, Detect, LoadDrivers, ReportFails, ReadImage, ResolveKernel,
     ReadKernel,
     MountIso, ReadInitrdFails, NativeFails, FirmwareFails, ChainFails, HandOff, Return,
     Failed, vars, attemptVars
<1>3. /\ pc' \in Unstarted => pc \in Unstarted
      /\ pc' \in {"verify", "load", "fallback"} => pc \in {"verify", "load", "fallback"}
  <2>1. CASE Detect \/ LoadDrivers \/ ReportFails \/ ReadImage \/ ResolveKernel \/ ReadKernel
             \/ MountIso
    BY <2>1, Zenon DEF Detect, LoadDrivers, ReportFails, ReadImage, ResolveKernel, ReadKernel,
       MountIso, Unstarted
  <2>2. CASE ReadInitrdFails \/ NativeFails \/ FirmwareFails \/ ChainFails
    BY <2>2, Zenon DEF ReadInitrdFails, NativeFails, FirmwareFails, ChainFails, Unstarted
  <2>3. CASE HandOff \/ Return \/ Failed \/ UNCHANGED vars
    BY <2>3, Zenon DEF HandOff, Return, Failed, AfterBoot, Unstarted, vars, attemptVars
  <2> QED BY <2>1, <2>2, <2>3 DEF QuietNext
<1>4. \A e \in E : /\ e.name \notin LoadNames /\ e.name # "image_verified"
                   /\ e.status # "REJECTED" /\ e.name # "kernel_measured"
  BY <1>1 DEF Quiet, Loud
<1> QED BY <1>1, <1>2, <1>3, <1>4, RecordsAlone

\* measure_kernel_logged.
LEMMA RecordsMeasure == TrailInv /\ RecordsInv /\ Measure => RecordsInv'
<1> SUFFICES ASSUME TrailInv, RecordsInv, Measure PROVE RecordsInv'
  OBVIOUS
<1>1. /\ UNCHANGED <<env, try, img, started>> /\ pc = "measure" /\ pc' \in {"load", "verify"}
      /\ LogTyped /\ try \in Nat /\ pc \in Unstarted
  BY Zenon DEF Measure, TrailInv, OnceInv, Unstarted
<1>2. CASE pcr4' = pcr4 \cup {try} /\ \E l : IsEvent(l, "kernel_measured", "", "") /\ Adds({l})
  <2>1. PICK l : IsEvent(l, "kernel_measured", "", "") /\ Adds({l})
    BY <1>2, Zenon
  <2>2. l.name = "kernel_measured" /\ l.status = "" /\ l.name \in MeasureNames
        /\ l.name \notin LoadNames
    BY <2>1, Zenon DEF IsEvent, MeasureNames, LoadNames
  <2> QED BY <1>1, <1>2, <2>1, <2>2, RecordsAlone, Zenon
<1>3. CASE pcr4' = pcr4
           /\ \E l : IsEvent(l, "kernel_measurement_skipped", "", "") /\ Adds({l})
  <2>1. PICK l : IsEvent(l, "kernel_measurement_skipped", "", "") /\ Adds({l})
    BY <1>3, Zenon
  <2>2. l.name = "kernel_measurement_skipped" /\ l.status = "" /\ l.name \in MeasureNames
        /\ l.name \notin LoadNames
    BY <2>1, Zenon DEF IsEvent, MeasureNames, LoadNames
  <2> QED BY <1>1, <1>3, <2>1, <2>2, RecordsAlone, Zenon
<1> QED BY <1>1, <1>2, <1>3, MeasureSays, Zenon

\* verify_kernel_bytes.
LEMMA RecordsVerify == TrailInv /\ RecordsInv /\ Verify => RecordsInv'
<1> SUFFICES ASSUME TrailInv, RecordsInv, Verify PROVE RecordsInv'
  OBVIOUS
<1>1. /\ UNCHANGED <<env, try, img, started, pcr4>> /\ pc = "verify" /\ pc' \in {"load", "failed"}
      /\ LogTyped /\ try \in Nat /\ posture \in Postures /\ pc \in Unstarted
  BY Zenon DEF Verify, TrailInv, OnceInv, AuthInv, PostureSound, Unstarted
<1>2. PICK l, st : VerdictSays(l, st)
  BY <1>1, VerifySays
<1>3. /\ Adds({l}) /\ l.name = "image_verified" /\ l.status = st
      /\ (st = "SUCCESS" => img.shimOk) /\ (st = "REJECTED" => pc' \notin Unstarted)
      /\ l.name \notin LoadNames
  BY <1>2 DEF VerdictSays, IsEvent, Unstarted, LoadNames
<1> QED BY <1>1, <1>3, RecordsAlone

\* A start of this selection's image, recorded as l.
LEMMA RecordsStart ==
  ASSUME TrailInv, RecordsInv, UNCHANGED <<env, try, img, pcr4>>,
         pc \in {"load", "fallback"},
         NEW by \in {"native", "firmware"}, Start(by),
         NEW name \in LoadNames, NEW via, NEW l, LoadSays(name, via, l),
         (name = "image_loaded_native") = (by = "native"),
         via = "shim_mok" => img.shimOk,
         via = "firmware_loadimage" => ~env.sb \/ img.shimOk \/ img.dbOk
  PROVE  RecordsInv'
<1> DEFINE s == [img |-> img, by |-> by, try |-> try]
<1>1. PICK Q : Quiet(Q) /\ Adds(Q \cup {l})
  BY DEF LoadSays
<1>2. l.name = name /\ l.via = via /\ l.status = "SUCCESS" /\ l.try = try
  BY DEF LoadSays, IsEvent
<1>3. /\ Said' = Said \cup (Q \cup {l})
      /\ \A e \in Q : e.try = try /\ e.status # "REJECTED" /\ e.name \notin Loud
  BY <1>1 DEF Adds, Quiet
<1>4. try \in Nat
  BY Zenon DEF TrailInv, OnceInv
<1>5. /\ s.img = img /\ s.by = by /\ s.try = try
      /\ started' = Append(started, s) /\ pc' = "running"
      /\ s \in [img : Images \cup {None}, by : {"native", "firmware"}, try : Nat]
  BY Zenon DEF Start, TrailInv, OnceInv
<1> HIDE DEF s
<1>6. /\ Len(started') = Len(started) + 1 /\ Len(started) \in Nat
      /\ started'[Len(started) + 1] = s
      /\ \A k \in 1 .. Len(started) : started'[k] = started[k]
  <2> DEFINE S == [img : Images \cup {None}, by : {"native", "firmware"}, try : Nat]
  <2>1. started \in Seq(S) /\ s \in S
    BY <1>5, Zenon DEF TrailInv, OnceInv, StartedSeq
  <2> HIDE DEF S
  <2>2. /\ Len(Append(started, s)) = Len(started) + 1 /\ Len(started) \in Nat
        /\ Append(started, s)[Len(started) + 1] = s
        /\ \A k \in 1 .. Len(started) : Append(started, s)[k] = started[k]
    <3> DEFINE u == started
    <3>1. u \in Seq(S) /\ s \in S
      BY <2>1
    <3> HIDE DEF u
    <3>2. /\ Len(Append(u, s)) = Len(u) + 1 /\ Len(u) \in Nat
          /\ Append(u, s)[Len(u) + 1] = s
          /\ \A k \in 1 .. Len(u) : Append(u, s)[k] = u[k]
      BY <3>1, OneMore
    <3> QED BY <3>2, Zenon DEF u
  <2> QED BY <1>5, <2>2, Zenon
<1>7. \A e \in Said' : e.try <= try
  BY <1>2, <1>3, <1>4 DEF RecordsInv
<1>8. name # "kernel_measured" /\ name # "image_verified"
  BY DEF LoadNames
<1>9. \A n \in 0 .. try :
        (\E e \in Said' : e.try = n /\ e.name = "kernel_measured") <=> n \in pcr4
  BY <1>2, <1>3, <1>8 DEF RecordsInv, Loud
<1>10. \A e \in Said' : e.try = try /\ e.name = "image_verified" /\ e.status = "SUCCESS"
                          => img.shimOk
  BY <1>2, <1>3, <1>8 DEF RecordsInv, Loud
<1>11. ASSUME NEW k \in 1 .. Len(started) PROVE Told(Said', env.sb, started[k])
  <2>1. Told(Said, env.sb, started[k])
    BY DEF RecordsInv
  <2>2. started[k].try # try
    <3>1. pc \in Unstarted
      BY DEF Unstarted
    <3>2. started[k].try < try /\ started[k].try \in Nat
      BY <3>1, StartFields DEF TrailInv, OnceInv
    <3> QED BY <1>4, <3>2
  <2>3. \A e \in Q \cup {l} : e.try # started[k].try
    BY <1>2, <1>3, <2>2
  <2> QED BY <1>3, <2>1, <2>3, ToldStays, Zenon
<1>12. Told(Said', env.sb, s)
  <2>1. /\ \A e \in Said : e.try = try => e.status # "REJECTED" /\ e.name \notin LoadNames
        /\ \E e \in Said : e.try = try /\ e.name \in MeasureNames
    BY DEF RecordsInv, Unstarted
  <2>2. \A e \in Said' : e.try = try => e.status # "REJECTED"
    BY <1>2, <1>3, <2>1
  <2>3. \E e \in Said' : e.try = try /\ e.name \in MeasureNames
    BY <1>3, <2>1
  <2>4. \A e \in Said' : e.try = try /\ e.name \in LoadNames => e = l
    BY <1>3, <2>1 DEF Loud
  <2>5. l \in Said' /\ l.try = try /\ l.name \in LoadNames
    BY <1>2, <1>3
  <2>6. /\ (l.name = "image_loaded_native") = (by = "native")
        /\ l.via = "shim_mok" => img.shimOk
        /\ l.via = "firmware_loadimage" => ~env.sb \/ img.shimOk \/ img.dbOk
    <3>1. l.name = name /\ l.via = via
      BY <1>2
    <3> QED BY <3>1
  <2> QED BY <1>5, <2>2, <2>3, <2>4, <2>5, <2>6, Zenon DEF Told
<1>13. \A k \in 1 .. Len(started') : Told(Said', env.sb, started'[k])
  <2> TAKE k \in 1 .. Len(started')
  <2>1. k \in 1 .. Len(started) \/ k = Len(started) + 1
    BY <1>6
  <2> QED BY <1>6, <1>11, <1>12, <2>1, Zenon
<1>14. /\ pc' \notin Unstarted /\ pc' \notin {"verify", "load", "fallback"}
       /\ (pcr4 \subseteq 0 .. try)'
  BY <1>5 DEF Unstarted, RecordsInv
<1>15. /\ (\A e \in Said : e.try <= try)'
       /\ (\A n \in 0 .. try : (\E e \in Said : e.try = n /\ e.name = "kernel_measured") <=> n \in pcr4)'
       /\ (\A e \in Said : e.try = try /\ e.name = "image_verified" /\ e.status = "SUCCESS"
                             => img.shimOk)'
       /\ (\A k \in 1 .. Len(started) : Told(Said, env.sb, started[k]))'
  BY <1>7, <1>9, <1>10, <1>13
<1> QED BY <1>14, <1>15, Zenon DEF RecordsInv

\* Every step keeps the invariant.
LEMMA RecordsStep == TrailInv /\ RecordsInv /\ [Next]_vars => RecordsInv'
<1> SUFFICES ASSUME TrailInv, RecordsInv, [Next]_vars PROVE RecordsInv'
  OBVIOUS
<1>1. LogTyped /\ try \in Nat
  BY DEF TrailInv, OnceInv
<1>2. CASE QuietNext
  BY <1>2, RecordsQuiet, RecordsSelect
<1>3. CASE Measure \/ Verify
  BY <1>3, RecordsMeasure, RecordsVerify
<1>4. CASE NativeLoad
  <2>1. /\ pc = "load" /\ ~IsChainload(img) /\ Start("native")
        /\ UNCHANGED <<env, try, img, pcr4>>
    BY <1>4 DEF NativeLoad
  <2>2. seen.via \in Vias /\ seen.via # "firmware_loadimage"
        /\ (seen.via = "shim_mok" => img.shimOk)
    BY <2>1, VerdictKept
  <2>3. PICK l : LoadSays("image_loaded_native", seen.via, l)
    BY <1>1, <1>4, <2>2, NativeLoadSays
  <2>4. "image_loaded_native" \in LoadNames
    BY DEF LoadNames
  <2> QED BY <2>1, <2>2, <2>3, <2>4, RecordsStart
<1>5. CASE FirmwareLoad \/ ChainLoad
  <2>1. /\ pc \in {"load", "fallback"} /\ Start("firmware")
        /\ UNCHANGED <<env, try, img, pcr4>>
        /\ ~env.sb \/ img.shimOk \/ img.dbOk
    BY <1>5 DEF FirmwareLoad, FirmwareTurn, ChainLoad, LoadImageMayAccept
  <2>2. PICK name \in {"image_loaded_firmware", "image_chainloaded"} :
          \E l : LoadSays(name, "firmware_loadimage", l)
    BY <1>1, <1>5, FirmwareLoadSays, ChainLoadSays
  <2>3. PICK l : LoadSays(name, "firmware_loadimage", l)
    BY <2>2
  <2>4. name \in LoadNames /\ name # "image_loaded_native"
    BY DEF LoadNames
  <2> QED BY <2>1, <2>3, <2>4, RecordsStart
<1> QED BY <1>2, <1>3, <1>4, <1>5 DEF Next, QuietNext

\* What the trust log says of verification, loading and measurement is what
\* happened: SUCCESS and shim_mok are of images shim accepts, a load the log
\* leaves to the firmware is of an image the firmware accepts, a rejected image
\* is never started, every start has exactly one load record, which names the
\* loader that ran, and kernel_measured is said exactly of the attempts that
\* extended PCR 4.
THEOREM HonestRecordsHolds == Spec => []HonestRecords
<1>1. Init => TrailInv /\ RecordsInv
  <2> SUFFICES ASSUME Init PROVE TrailInv /\ RecordsInv
    OBVIOUS
  <2>1. pc = "detect" /\ try = 0 /\ pcr4 = {} /\ Said = {} /\ Len(started) = 0
    BY TrailInit DEF Init
  <2> QED BY <2>1, TrailInit DEF RecordsInv, Unstarted
<1>2. TrailInv /\ RecordsInv => HonestRecords
  <2> SUFFICES ASSUME TrailInv, RecordsInv PROVE HonestRecords
    OBVIOUS
  <2>1. \A n : EventsOf(n) = {e \in Said : e.try = n}
    BY EventsSaid DEF TrailInv
  <2>2. ASSUME NEW k \in 1 .. Len(started)
        PROVE  LET s == started[k]
                   loads == {e \in EventsOf(s.try) : e.name \in LoadNames}
               IN  /\ \A e \in EventsOf(s.try) : e.status # "REJECTED"
                   /\ \E l \in loads : loads = {l}
                   /\ \A e \in loads :
                        /\ (e.name = "image_loaded_native") = (s.by = "native")
                        /\ e.via = "shim_mok" => s.img.shimOk
                        /\ e.via = "firmware_loadimage" =>
                             ~env.sb \/ s.img.shimOk \/ s.img.dbOk
                   /\ \E e \in EventsOf(s.try) : e.name \in MeasureNames
    <3> DEFINE s == started[k]
               loads == {e \in EventsOf(s.try) : e.name \in LoadNames}
    <3>1. Told(Said, env.sb, s)
      BY DEF RecordsInv
    <3> HIDE DEF s
    <3>2. PICK l \in Said :
           /\ l.try = s.try /\ l.name \in LoadNames
           /\ \A e \in Said : e.try = s.try /\ e.name \in LoadNames => e = l
           /\ (l.name = "image_loaded_native") = (s.by = "native")
           /\ l.via = "shim_mok" => s.img.shimOk
           /\ l.via = "firmware_loadimage" => ~env.sb \/ s.img.shimOk \/ s.img.dbOk
      BY <3>1, Zenon DEF Told
    <3>3. loads = {l}
      BY <2>1, <3>2
    <3>4. \E l_ \in loads : loads = {l_}
      BY <3>3, Zenon
    <3>5. /\ \A e \in EventsOf(s.try) : e.status # "REJECTED"
          /\ \E e \in EventsOf(s.try) : e.name \in MeasureNames
      BY <2>1, <3>1, Zenon DEF Told
    <3> HIDE DEF loads
    <3> QED BY <3>2, <3>3, <3>4, <3>5, Zenon DEF s, loads
  <2>3. \A e \in EventsOf(try) :
          e.name = "image_verified" /\ e.status = "SUCCESS" => img.shimOk
    BY <2>1 DEF RecordsInv
  <2>4. HonestAudit
    BY <2>2, <2>3, Zenon DEF HonestAudit, LoadNames
  <2>5. \A n \in 1 .. try :
          (\E e \in EventsOf(n) : e.name = "kernel_measured") <=> n \in pcr4
    <3> TAKE n \in 1 .. try
    <3>1. n \in 0 .. try
      BY DEF TrailInv, OnceInv
    <3> QED BY <2>1, <3>1 DEF RecordsInv
  <2>6. HonestMeasurement
    BY <2>2, <2>5, Zenon DEF HonestMeasurement, MeasureNames
  <2> QED BY <2>4, <2>6 DEF HonestRecords
<1> QED BY <1>1, <1>2, TrailStep, RecordsStep, PTL DEF Spec
=============================================================================
