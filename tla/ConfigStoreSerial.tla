--------------------------- MODULE ConfigStoreSerial ---------------------------
(***************************************************************************)
(* ConfigStore under a user who waits for each answer before the next      *)
(* request, as one browser tab of the panel does: while a handler is busy  *)
(* nobody else calls the store.  Under this restriction, and only under    *)
(* it, the store implements AtomicConfig.                                  *)
(***************************************************************************)
EXTENDS ConfigStore

AllIdle == \A h \in Handlers : ~Busy(h)

SerialNext ==
    \/ NewDefault
    \/ NewFromFile
    \/ Crash
    \/ AllIdle /\ StoreCall
    \/ \E h \in Handlers : (\A g \in Handlers \ {h} : ~Busy(g)) /\ HandlerStep(h)

SerialSpec == Init /\ [][SerialNext]_vars

\* The configuration a request in progress has produced counts as the store's
\* from the edit on; SaveConfig then only writes the file.
Current ==
    IF \E h \in Handlers : req[h].pc = "save"
    THEN req[CHOOSE h \in Handlers : req[h].pc = "save"].cfg
    ELSE cfg

Atomic == INSTANCE AtomicConfig
            WITH on   <- up,
                 live <- IF up THEN Contents(heap, Current) ELSE Default,
                 file <- disk

\* The detailed store implements the atomic document: one request at a time,
\* each edit through slices and shared arrays is one exact change of the
\* document, and after a crash the service resumes from a document it had.
ImplementsAtomic == Atomic!Spec
=============================================================================
