------------------------------- MODULE MCParts -------------------------------
(* Small instances for TLC of parts that share no state: the capture,       *)
(* downloads, the parser of events, the resampler and the local drivers.  A *)
(* behaviour is one of theirs, and the others stay as they are.             *)
EXTENDS Capture, Download, Sse, Resampler, LocalDriver

CONSTANTS x, y

VARIABLE part

MCRates == {<<1, 1>>, <<1, 2>>, <<2, 3>>, <<3, 2>>, <<3, 1>>}

partsVars == <<part, vars, downloadVars, sseVars, resamplerVars, localVars>>
InCapture(A) ==
    part = "capture" /\ A /\ UNCHANGED <<part, downloadVars, sseVars, resamplerVars, localVars>>
InDownload(A) ==
    part = "download" /\ A /\ UNCHANGED <<part, vars, sseVars, resamplerVars, localVars>>
InSse(A) ==
    part = "sse" /\ A /\ UNCHANGED <<part, vars, downloadVars, resamplerVars, localVars>>
InResampler(A) ==
    part = "resampler" /\ A /\ UNCHANGED <<part, vars, downloadVars, sseVars, localVars>>
InLocal(A) ==
    part = "local" /\ A /\ UNCHANGED <<part, vars, downloadVars, sseVars, resamplerVars>>

PartsInit ==
    /\ part \in {"capture", "download", "sse", "resampler", "local"}
    /\ CaptureInit /\ DownloadInit /\ SseInit /\ ResamplerInit /\ LocalInit
    /\ part # "download" => ~windows /\ ~Exists(final) /\ leftover = Process \X {1}
    /\ part # "resampler" => src = dst /\ lag = 0
    /\ part # "local" => ~offline
PartsNext ==
    \/ InCapture(CaptureNext) \/ InDownload(DownloadNext) \/ InSse(SseNext)
    \/ InResampler(ResamplerNext) \/ InLocal(LocalNext)
\* The fairness of FairCaptureSpec and FairDownloadSpec.
PartsSpec ==
    /\ PartsInit /\ [][PartsNext]_partsVars
    /\ WF_partsVars(InCapture(Drain)) /\ WF_partsVars(InCapture(HostGoesOn))
    /\ WF_partsVars(InCapture(StoreFault)) /\ WF_partsVars(InCapture(Tick))
    /\ \A p \in Process : WF_partsVars(InDownload(Step(p)))
===============================================================================
