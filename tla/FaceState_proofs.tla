-------------------------- MODULE FaceState_proofs --------------------------
(***************************************************************************)
(* FaceState for any writers, any processes, any fields and any number of  *)
(* calls: the types, and what a push that met no other call can rely on.   *)
(***************************************************************************)
EXTENDS FaceState, TLAPS

-----------------------------------------------------------------------------
(* The types *)

\* A merge of a state with a call's number is a state.
LEMMA MergeIsState ==
  ASSUME NEW state \in States, NEW K \in SUBSET Fields, NEW n \in 0..MaxPushes
  PROVE  Merge(state, K, n) \in States
  BY DEF Merge, States

LEMMA BlankIsState == Blank \in States
  BY FaceAssumption DEF Blank, States

LEMMA LoadedIsState ==
  ASSUME NEW K \in SUBSET Fields, NEW n \in 0..MaxPushes
  PROVE  Loaded(K, n) \in States
  BY MergeIsState, BlankIsState DEF Loaded, Readable

LEMMA NoCallIsCall == NoCall \in Calls
  BY BlankIsState, FaceAssumption DEF NoCall, Calls

\* Beginning a call keeps the types.
LEMMA BeginTyped ==
  ASSUME TypeOK, NEW w \in Writers, NEW K \in SUBSET Fields, NEW state \in States,
         NEW step \in {"open_tmp", "open_live"}, NEW inPlace \in BOOLEAN,
         Begin(w, K, state, step, inPlace)
  PROVE  TypeOK'
<1> USE DEF TypeOK, Begin, fileVars
<1>1. pushes' \in 0..MaxPushes
  BY FaceAssumption
<1>2. call' \in [Writers -> Calls]
  <2>1. \A v \in Writers : [call[v] EXCEPT !.alone = FALSE] \in Calls
    BY DEF Calls
  <2>2. [draft |-> state, kw |-> K, num |-> pushes', alone |-> Others(w) = {}] \in Calls
    BY <1>1 DEF Calls
  <2> QED BY <2>1, <2>2
<1>3. pc' \in [Writers -> {"idle", "open_tmp", "open_live", "write", "replace"}]
  OBVIOUS
<1>4. disturbed' \in BOOLEAN
  OBVIOUS
<1>5. UNCHANGED <<file, live, tmp, fd>>
  OBVIOUS
<1> QED BY <1>1, <1>2, <1>3, <1>4, <1>5, States' = States DEF States, Calls

LEMMA EndTyped ==
  ASSUME TypeOK, NEW w \in Writers, End(w)
  PROVE  /\ pc' \in [Writers -> {"idle", "open_tmp", "open_live", "write", "replace"}]
         /\ call' \in [Writers -> Calls]
  BY NoCallIsCall DEF TypeOK, End

LEMMA StepTyped == TypeOK /\ [Next]_vars => TypeOK'
<1> SUFFICES ASSUME TypeOK, [Next]_vars PROVE TypeOK'
  OBVIOUS
<1>1. ASSUME NEW w \in Writers, NEW K \in SUBSET Fields \ {{}}, Load(w, K)
      PROVE  TypeOK'
  <2>1. pushes + 1 \in 0..MaxPushes
    BY <1>1, FaceAssumption DEF TypeOK, Load, Begin
  <2>2. Loaded(K, pushes + 1) \in States
    BY <2>1, LoadedIsState
  <2> QED BY <1>1, <2>2, BeginTyped DEF Load
<1>2. ASSUME NEW w \in Writers, NEW K \in SUBSET Fields \ {{}}, EditInPlace(w, K)
      PROVE  TypeOK'
  <2>1. pushes + 1 \in 0..MaxPushes
    BY <1>2, FaceAssumption DEF TypeOK, EditInPlace, Begin
  <2>2. Loaded(K, pushes + 1) \in States
    BY <2>1, LoadedIsState
  <2> QED BY <1>2, <2>2, BeginTyped DEF EditInPlace
<1>3. ASSUME NEW w \in Writers, PushInPlace(w)
      PROVE  TypeOK'
  <2>1. pushes + 1 \in 0..MaxPushes
    BY <1>3, FaceAssumption DEF TypeOK, PushInPlace, Begin
  <2>2. DeskFields \in SUBSET Fields
    BY FaceAssumption
  <2>3. Merge(Blank, DeskFields, pushes + 1) \in States
    BY <2>1, <2>2, BlankIsState, MergeIsState
  <2> QED BY <1>3, <2>2, <2>3, BeginTyped DEF PushInPlace
<1>4. ASSUME NEW w \in Writers, OpenTmp(w)
      PROVE  TypeOK'
  <2>1. call[w].num \in Files
    BY DEF TypeOK, Calls, Files
  <2>2. tmp' \in Files
    BY <1>4, <2>1 DEF OpenTmp, TypeOK
  <2>3. file' \in [Files -> States \union {Empty, Torn}]
    BY <1>4, <2>2 DEF OpenTmp, TypeOK
  <2>4. fd' \in [Writers -> Files \union {None}]
    BY <1>4, <2>2 DEF OpenTmp, TypeOK
  <2> QED BY <1>4, <2>2, <2>3, <2>4 DEF OpenTmp, TypeOK, States, Calls
<1>5. ASSUME NEW w \in Writers, OpenLive(w)
      PROVE  TypeOK'
  BY <1>5 DEF OpenLive, TypeOK, States, Calls
<1>6. ASSUME NEW w \in Writers, Flush(w)
      PROVE  TypeOK'
  <2>1. PICK text \in {call[w].draft} \union (IF file[fd[w]] = Empty THEN {} ELSE {Torn}) :
          file' = [file EXCEPT ![fd[w]] = text]
    BY <1>6 DEF Flush
  <2>2. text \in States \union {Empty, Torn}
    BY <2>1 DEF TypeOK, Calls
  <2>3. file' \in [Files -> States \union {Empty, Torn}]
    BY <2>1, <2>2 DEF TypeOK
  <2>4. fd' \in [Writers -> Files \union {None}]
    BY <1>6 DEF Flush, TypeOK
  <2>5. /\ pc' \in [Writers -> {"idle", "open_tmp", "open_live", "write", "replace"}]
        /\ call' \in [Writers -> Calls]
    BY <1>6, EndTyped DEF Flush, TypeOK
  <2> QED BY <1>6, <2>3, <2>4, <2>5 DEF Flush, TypeOK, States, Calls
<1>7. ASSUME NEW w \in Writers, Replace(w)
      PROVE  TypeOK'
  BY <1>7, EndTyped DEF Replace, TypeOK, States, Calls
<1>8. ASSUME NEW w \in Writers, Refused(w)
      PROVE  TypeOK'
  BY <1>8, EndTyped DEF Refused, fileVars, TypeOK, States, Calls
<1>9. ASSUME NEW P \in Processes, Kill(P)
      PROVE  TypeOK'
  BY <1>9, NoCallIsCall DEF Kill, fileVars, TypeOK, States, Calls
<1>10. CASE UNCHANGED vars
  BY <1>10 DEF vars, fileVars, callVars, TypeOK, States, Calls
<1> QED
  BY <1>1, <1>2, <1>3, <1>4, <1>5, <1>6, <1>7, <1>8, <1>9, <1>10 DEF Next, Step

LEMMA InitTyped == Init => TypeOK
<1> SUFFICES ASSUME Init PROVE TypeOK
  OBVIOUS
<1>1. 0 \in 0..MaxPushes
  BY FaceAssumption
<1>2. file \in [Files -> States \union {Empty, Torn}]
  BY BlankIsState DEF Init
<1>3. call \in [Writers -> Calls]
  BY NoCallIsCall DEF Init
<1> QED BY <1>1, <1>2, <1>3 DEF Init, TypeOK, Files

\* Whatever the writers, the fields and the number of calls: files, names and
\* calls keep their shapes.
THEOREM TypeCorrect == Spec => []TypeOK
  BY InitTyped, StepTyped, PTL DEF Spec
-----------------------------------------------------------------------------
(* A push that met no other call                                           *)
(*                                                                         *)
(* The invariant: whoever is alone really is; a push that opens the        *)
(* temporary name brings a file of its own, so the name never points to    *)
(* the live file; and a lone push knows what is behind both names.         *)

\* What json.load makes of the live file.
Current == IF Readable(live) THEN file[live] ELSE Blank

\* Writers of the live file in place never use the temporary name, and only
\* they open the live one.
Roles ==
  \A w \in Writers :
    /\ pc[w] = "open_live" => w \in Overwriters
    /\ pc[w] \in {"open_tmp", "replace"} => w \notin Overwriters
    /\ pc[w] = "write" => fd[w] \in Files

\* The two names never point to one file: a push brings a new one.
Apart ==
  /\ tmp # live
  /\ live <= pushes
  /\ tmp # None => tmp <= pushes
  /\ \A w \in Writers :
       /\ call[w].num <= pushes
       /\ pc[w] = "open_tmp" =>
            /\ call[w].num # live
            /\ call[w].num # tmp
            /\ \A v \in Writers \ {w} : pc[v] = "open_tmp" => call[v].num # call[w].num

\* alone means what it says.
Alone == \A w \in Writers : call[w].alone => pc[w] # "idle" /\ Others(w) = {}

\* A lone push's draft is the current state with its fields set, the file it
\* opened is the temporary one, and what it publishes is its draft.
LonePush ==
  \A w \in Writers \ Overwriters : call[w].alone =>
    /\ call[w].draft = Merge(Current, call[w].kw, call[w].num)
    /\ pc[w] = "write" => fd[w] = tmp /\ tmp # None /\ file[tmp] = Empty
    /\ pc[w] = "replace" => tmp # None /\ file[tmp] = call[w].draft

Undisturbed ==
  ~disturbed =>
    /\ Readable(live)
    /\ \A w \in Writers : pc[w] # "idle" => call[w].alone /\ w \notin Overwriters

IInv == TypeOK /\ Roles /\ Apart /\ Alone /\ LonePush /\ Undisturbed
LEMMA InitIInv == Init => IInv
<1> SUFFICES ASSUME Init PROVE IInv
  OBVIOUS
<1>1. TypeOK
  BY InitTyped
<1>2. Roles /\ Alone /\ Undisturbed
  BY BlankIsState, FaceAssumption DEF Init, Roles, Alone, Undisturbed, Readable, Files, NoCall
<1>3. Apart
  BY FaceAssumption DEF Init, Apart, NoCall
<1>4. LonePush
  BY DEF Init, LonePush, NoCall
<1> QED BY <1>1, <1>2, <1>3, <1>4 DEF IInv

\* A call that begins as its kind of writer does.
LEMMA BeginKeeps ==
  ASSUME IInv, TypeOK', NEW w \in Writers, NEW K \in SUBSET Fields, NEW state \in States,
         NEW step \in {"open_tmp", "open_live"}, NEW inPlace \in BOOLEAN,
         Begin(w, K, state, step, inPlace),
         step = "open_tmp" => w \notin Overwriters /\ state = Merge(Current, K, pushes + 1),
         step = "open_live" => w \in Overwriters /\ inPlace
  PROVE  IInv'
<1>1. TypeOK
  BY DEF IInv
<1>2. /\ UNCHANGED <<file, live, tmp, fd>>
      /\ pushes' = pushes + 1
      /\ pc[w] = "idle"
      /\ pc' = [pc EXCEPT ![w] = step]
  BY DEF Begin, fileVars
<1>3. /\ call'[w].draft = state
      /\ call'[w].kw = K
      /\ call'[w].num = pushes + 1
      /\ call'[w].alone = (Others(w) = {})
  BY DEF Begin
<1>4. \A v \in Writers \ {w} : call'[v].alone = FALSE /\ call'[v].num = call[v].num
  <2> SUFFICES ASSUME NEW v \in Writers \ {w}
               PROVE  call'[v].alone = FALSE /\ call'[v].num = call[v].num
    OBVIOUS
  <2>1. call'[v] = [call[v] EXCEPT !.alone = FALSE]
    BY DEF Begin
  <2>2. call[v] \in Calls
    BY <1>1 DEF TypeOK
  <2> QED BY <2>1, <2>2 DEF Calls
<1>5. pushes \in Nat
  BY <1>1, FaceAssumption DEF TypeOK
<1>6. Roles'
  BY <1>1, <1>2 DEF IInv, TypeOK, Roles
<1>7. Apart'
  <2>1. live \in Nat /\ (tmp # None => tmp \in Nat) /\ \A v \in Writers : call[v].num \in Nat
    BY <1>1, FaceAssumption DEF TypeOK, Files, Calls
  <2>2. /\ live < pushes + 1
        /\ tmp # pushes + 1
        /\ \A v \in Writers : call[v].num < pushes + 1
    BY <1>5, <2>1, FaceAssumption DEF IInv, Apart
  <2>3. /\ (tmp # live)'
        /\ (live <= pushes)'
        /\ (tmp # None => tmp <= pushes)'
        /\ \A v \in Writers : (call[v].num <= pushes)'
    BY <1>2, <1>3, <1>4, <1>5, <2>1, <2>2 DEF IInv, Apart
  <2>4. ASSUME NEW v \in Writers, (pc[v] = "open_tmp")'
        PROVE  /\ (call[v].num # live)'
               /\ (call[v].num # tmp)'
               /\ \A u \in Writers \ {v} : (pc[u] = "open_tmp" => call[u].num # call[v].num)'
    <3>1. CASE v = w
      BY <1>2, <1>3, <1>4, <1>5, <2>1, <2>2, <3>1
    <3>2. CASE v # w
      <4>1. pc[v] = "open_tmp"
        BY <1>1, <1>2, <2>4, <3>2 DEF TypeOK
      <4> QED BY <1>1, <1>2, <1>3, <1>4, <1>5, <2>1, <2>2, <3>2, <4>1 DEF IInv, Apart, TypeOK
    <3> QED BY <3>1, <3>2
  <2> QED BY <2>3, <2>4 DEF Apart
<1>8. Alone'
  <2>1. (pc[w] # "idle")'
    BY <1>1, <1>2 DEF TypeOK
  <2>2. Others(w)' = Others(w)
    BY <1>1, <1>2 DEF Others, TypeOK
  <2>3. (call[w].alone => Others(w) = {})'
    BY <1>3, <2>2
  <2> QED BY <1>4, <2>1, <2>3 DEF Alone
<1>9. LonePush'
  BY <1>1, <1>2, <1>3, <1>4, States' = States
     DEF LonePush, TypeOK, Current, Readable, Blank, Merge
<1>10. Undisturbed'
  <2> SUFFICES ASSUME ~disturbed'
               PROVE  /\ Readable(live)'
                      /\ \A v \in Writers : (pc[v] # "idle" => call[v].alone /\ v \notin Overwriters)'
    BY DEF Undisturbed
  <2>1. ~disturbed /\ Others(w) = {} /\ ~inPlace
    BY <1>1 DEF Begin, TypeOK
  <2>2. \A v \in Writers \ {w} : pc'[v] = "idle"
    BY <1>1, <1>2, <2>1 DEF Others, TypeOK
  <2>3. w \notin Overwriters
    BY <2>1
  <2>4. Readable(live)'
    BY <1>2, <2>1, States' = States DEF IInv, Undisturbed, Readable
  <2> QED BY <1>3, <2>1, <2>2, <2>3, <2>4
<1> QED BY <1>6, <1>7, <1>8, <1>9, <1>10 DEF IInv
LEMMA CallsBegin ==
  ASSUME IInv, TypeOK', NEW w \in Writers,
         \/ \E K \in SUBSET Fields \ {{}} : Load(w, K) \/ EditInPlace(w, K)
         \/ PushInPlace(w)
  PROVE  IInv'
<1>1. TypeOK
  BY DEF IInv
<1>2. ASSUME NEW K \in SUBSET Fields \ {{}}, Load(w, K) \/ EditInPlace(w, K) PROVE IInv'
  <2>1. pushes + 1 \in 0..MaxPushes
    BY <1>1, <1>2, FaceAssumption DEF TypeOK, Load, EditInPlace, Begin
  <2>2. Loaded(K, pushes + 1) \in States
    BY <2>1, LoadedIsState
  <2>3. Loaded(K, pushes + 1) = Merge(Current, K, pushes + 1)
    BY DEF Loaded, Current
  <2>4. CASE Load(w, K)
    <3>1. w \notin Overwriters
      BY <2>4, FaceAssumption DEF Load
    <3> QED BY <2>2, <2>3, <2>4, <3>1, BeginKeeps DEF Load
  <2>5. CASE EditInPlace(w, K)
    BY <2>2, <2>5, BeginKeeps DEF EditInPlace
  <2> QED BY <1>2, <2>4, <2>5
<1>3. CASE PushInPlace(w)
  <2>1. pushes + 1 \in 0..MaxPushes
    BY <1>1, <1>3, FaceAssumption DEF TypeOK, PushInPlace, Begin
  <2>2. DeskFields \in SUBSET Fields
    BY FaceAssumption
  <2>3. Merge(Blank, DeskFields, pushes + 1) \in States
    BY <2>1, <2>2, BlankIsState, MergeIsState
  <2> QED BY <1>3, <2>2, <2>3, BeginKeeps DEF PushInPlace
<1> QED BY <1>2, <1>3

\* The temporary name is not the live file's, so the live one stays as it is.
LEMMA OpenTmpKeeps ==
  ASSUME IInv, TypeOK', NEW w \in Writers, OpenTmp(w)
  PROVE  IInv'
<1>1. TypeOK
  BY DEF IInv
<1>2. /\ UNCHANGED <<live, call, pushes, disturbed>>
      /\ pc[w] = "open_tmp"
      /\ pc' = [pc EXCEPT ![w] = "write"]
      /\ tmp' = IF tmp = None THEN call[w].num ELSE tmp
      /\ file' = [file EXCEPT ![tmp'] = Empty]
      /\ fd' = [fd EXCEPT ![w] = tmp']
  BY DEF OpenTmp
<1>3. call[w].num \in Files /\ tmp' \in Files /\ tmp' # None
  BY <1>1, <1>2, FaceAssumption DEF TypeOK, Calls, Files
<1>4. tmp' # live
  BY <1>2 DEF IInv, Apart
<1>5. file'[live] = file[live] /\ live \in Files
  BY <1>1, <1>2, <1>3, <1>4 DEF TypeOK
<1>6. Roles'
  BY <1>1, <1>2, <1>3, Files' = Files DEF IInv, Roles, TypeOK
<1>7. Apart'
  <2>1. (tmp # live)' /\ (live <= pushes)' /\ (tmp # None => tmp <= pushes)'
    BY <1>2, <1>4 DEF IInv, Apart
  <2>2. ASSUME NEW v \in Writers
        PROVE  /\ (call[v].num <= pushes)'
               /\ (pc[v] = "open_tmp")' =>
                    /\ (call[v].num # live)'
                    /\ (call[v].num # tmp)'
                    /\ \A u \in Writers \ {v} : (pc[u] = "open_tmp" => call[u].num # call[v].num)'
    <3>1. (pc[v] = "open_tmp")' => v # w /\ pc[v] = "open_tmp"
      BY <1>1, <1>2 DEF TypeOK
    <3>2. \A u \in Writers : (pc[u] = "open_tmp")' => pc[u] = "open_tmp"
      BY <1>1, <1>2 DEF TypeOK
    <3> QED BY <1>2, <3>1, <3>2 DEF IInv, Apart
  <2> QED BY <2>1, <2>2 DEF Apart
<1>8. \A v \in Writers : Others(v)' = Others(v)
  BY <1>1, <1>2 DEF Others, TypeOK
<1>9. Alone'
  BY <1>1, <1>2, <1>8 DEF IInv, Alone, TypeOK
<1>10. Current' = Current
  BY <1>2, <1>5, States' = States, Blank' = Blank DEF Current, Readable
<1>11. LonePush'
  <2> SUFFICES ASSUME NEW v \in Writers \ Overwriters, call[v].alone
               PROVE  /\ call[v].draft = Merge(Current, call[v].kw, call[v].num)'
                      /\ (pc[v] = "write" => fd[v] = tmp /\ tmp # None /\ file[tmp] = Empty)'
                      /\ (pc[v] = "replace" => tmp # None /\ file[tmp] = call[v].draft)'
    BY <1>2 DEF LonePush
  <2>1. v = w
    BY <1>2 DEF IInv, Alone, Others
  <2>2. call[v].draft = Merge(Current, call[v].kw, call[v].num)'
    BY <1>2, <1>10 DEF IInv, LonePush, Merge
  <2>3. (fd[v] = tmp /\ tmp # None /\ file[tmp] = Empty)' /\ pc'[v] = "write"
    BY <1>1, <1>2, <1>3, <2>1 DEF TypeOK
  <2> QED BY <2>2, <2>3
<1>12. Undisturbed'
  BY <1>1, <1>2, <1>5, States' = States DEF IInv, Undisturbed, Readable, TypeOK
<1> QED BY <1>6, <1>7, <1>9, <1>11, <1>12 DEF IInv

LEMMA OpenLiveKeeps ==
  ASSUME IInv, TypeOK', NEW w \in Writers, OpenLive(w)
  PROVE  IInv'
<1>1. TypeOK
  BY DEF IInv
<1>2. /\ UNCHANGED <<live, tmp, call, pushes, disturbed>>
      /\ pc[w] = "open_live"
      /\ pc' = [pc EXCEPT ![w] = "write"]
      /\ fd' = [fd EXCEPT ![w] = live]
  BY DEF OpenLive
<1>3. w \in Overwriters
  BY <1>2 DEF IInv, Roles
<1>4. Roles'
  BY <1>1, <1>2, Files' = Files DEF IInv, Roles, TypeOK
<1>5. Apart'
  BY <1>1, <1>2 DEF IInv, Apart, TypeOK
<1>6. \A v \in Writers : Others(v)' = Others(v)
  BY <1>1, <1>2 DEF Others, TypeOK
<1>7. Alone'
  BY <1>1, <1>2, <1>6 DEF IInv, Alone, TypeOK
<1>8. LonePush'
  <2>1. \A v \in Writers \ Overwriters : ~call[v].alone
    BY <1>2, <1>3 DEF IInv, Alone, Others
  <2> QED BY <1>2, <2>1 DEF LonePush
<1>9. Undisturbed'
  BY <1>2, <1>3 DEF IInv, Undisturbed
<1> QED BY <1>4, <1>5, <1>7, <1>8, <1>9 DEF IInv
LEMMA FlushKeeps ==
  ASSUME IInv, TypeOK', NEW w \in Writers, Flush(w)
  PROVE  IInv'
<1>1. TypeOK
  BY DEF IInv
<1>2. PICK text \in {call[w].draft} \union (IF file[fd[w]] = Empty THEN {} ELSE {Torn}) :
        file' = [file EXCEPT ![fd[w]] = text]
  BY DEF Flush
<1>3. /\ pc[w] = "write"
      /\ fd' = [fd EXCEPT ![w] = None]
      /\ UNCHANGED <<live, tmp, pushes, disturbed>>
  BY DEF Flush
<1>4. fd[w] \in Files
  BY <1>3 DEF IInv, Roles
<1>5. \A v \in Writers : v # w => pc'[v] = pc[v] /\ call'[v] = call[v] /\ fd'[v] = fd[v]
  BY <1>1 DEF Flush, End, TypeOK
<1>6. pc'[w] = IF w \in Overwriters THEN "idle" ELSE "replace"
  BY <1>1 DEF Flush, End, TypeOK
<1>7. call'[w] = IF w \in Overwriters THEN NoCall ELSE call[w]
  BY <1>1 DEF Flush, End, TypeOK
<1>8. Roles'
  BY <1>3, <1>5, <1>6, Files' = Files DEF IInv, Roles
<1>9. Apart'
  <2>1. \A v \in Writers : call'[v].num = call[v].num \/ call'[v].num = 0
    BY <1>5, <1>7 DEF NoCall
  <2>2. \A v \in Writers : call'[v].num <= pushes
    BY <1>1, <2>1 DEF IInv, Apart, TypeOK
  <2>3. \A v \in Writers : pc'[v] = "open_tmp" => v # w /\ pc[v] = "open_tmp" /\ call'[v] = call[v]
    BY <1>5, <1>6
  <2> QED BY <1>3, <2>2, <2>3 DEF IInv, Apart
<1>10. \A v \in Writers : Others(v)' \subseteq Others(v)
  BY <1>3, <1>5 DEF Others
<1>11. \A v \in Writers : call'[v].alone => call[v].alone /\ call'[v] = call[v]
  BY <1>5, <1>7 DEF NoCall
<1>12. Alone'
  BY <1>5, <1>6, <1>7, <1>10, <1>11 DEF IInv, Alone, NoCall
<1>13. ASSUME call[w].alone, w \notin Overwriters
       PROVE  /\ Current' = Current
              /\ file'[live] = file[live]
              /\ tmp # None
              /\ file'[tmp] = call[w].draft
  <2>1. fd[w] = tmp /\ tmp # None /\ file[tmp] = Empty
    BY <1>3, <1>13 DEF IInv, LonePush
  <2>2. tmp # live /\ live \in Files
    BY <1>1 DEF IInv, Apart, TypeOK
  <2>3. text = call[w].draft
    BY <2>1
  <2>4. file'[live] = file[live] /\ file'[tmp] = call[w].draft
    BY <1>1, <1>2, <1>4, <2>1, <2>2, <2>3 DEF TypeOK
  <2> QED BY <1>3, <2>1, <2>4, States' = States, Blank' = Blank DEF Current, Readable
<1>14. LonePush'
  <2> SUFFICES ASSUME NEW v \in Writers \ Overwriters, call'[v].alone
               PROVE  /\ call[v].draft = Merge(Current, call[v].kw, call[v].num)'
                      /\ (pc[v] = "write" => fd[v] = tmp /\ tmp # None /\ file[tmp] = Empty)'
                      /\ (pc[v] = "replace" => tmp # None /\ file[tmp] = call[v].draft)'
    BY <1>7, <1>11 DEF LonePush
  <2>1. call[v].alone /\ call'[v] = call[v]
    BY <1>11
  <2>2. v = w
    BY <1>3, <2>1 DEF IInv, Alone, Others
  <2>3. call[v].draft = Merge(Current, call[v].kw, call[v].num)'
    BY <1>13, <2>1, <2>2 DEF IInv, LonePush, Merge
  <2> QED BY <1>3, <1>6, <1>13, <2>1, <2>2, <2>3
<1>15. Undisturbed'
  <2> SUFFICES ASSUME ~disturbed
               PROVE  /\ Readable(live)'
                      /\ \A v \in Writers : (pc[v] # "idle" => call[v].alone /\ v \notin Overwriters)'
    BY <1>3 DEF Undisturbed
  <2>1. call[w].alone /\ w \notin Overwriters
    BY <1>3 DEF IInv, Undisturbed
  <2>2. Readable(live)'
    BY <1>3, <1>13, <2>1, States' = States DEF IInv, Undisturbed, Readable
  <2> QED BY <1>5, <1>7, <2>1, <2>2 DEF IInv, Undisturbed
<1> QED BY <1>8, <1>9, <1>12, <1>14, <1>15 DEF IInv

\* A writer whose call ends, and what every other writer sees of it.
LEMMA EndClears ==
  ASSUME TypeOK, NEW w \in Writers, End(w)
  PROVE  /\ pc'[w] = "idle" /\ call'[w] = NoCall
         /\ \A v \in Writers : v # w => pc'[v] = pc[v] /\ call'[v] = call[v]
  BY DEF TypeOK, End

LEMMA ReplaceKeeps ==
  ASSUME IInv, TypeOK', NEW w \in Writers, Replace(w)
  PROVE  IInv'
<1>1. TypeOK
  BY DEF IInv
<1>2. /\ pc[w] = "replace" /\ tmp # None
      /\ live' = tmp /\ tmp' = None
      /\ disturbed' = (disturbed /\ ~call[w].alone)
      /\ UNCHANGED <<file, fd, pushes>>
  BY DEF Replace
<1>3. /\ pc'[w] = "idle" /\ call'[w] = NoCall
      /\ \A v \in Writers : v # w => pc'[v] = pc[v] /\ call'[v] = call[v]
  BY <1>1, EndClears DEF Replace
<1>4. w \notin Overwriters
  BY <1>2 DEF IInv, Roles
<1>5. Roles'
  BY <1>2, <1>3, Files' = Files DEF IInv, Roles
<1>6. Apart'
  <2>1. \A v \in Writers : call'[v].num \in Nat
    BY FaceAssumption DEF TypeOK, Calls
  <2>2. \A v \in Writers : call'[v].num <= pushes
    BY <1>1, <1>3 DEF IInv, Apart, NoCall, TypeOK
  <2>3. tmp \in Nat
    BY <1>1, <1>2, FaceAssumption DEF TypeOK, Files
  <2>4. \A v \in Writers : pc'[v] = "open_tmp" => v # w /\ pc[v] = "open_tmp" /\ call'[v] = call[v]
    BY <1>3
  <2> QED BY <1>2, <2>1, <2>2, <2>3, <2>4, FaceAssumption DEF IInv, Apart
<1>7. \A v \in Writers : ~call'[v].alone
  BY <1>2, <1>3 DEF IInv, Alone, Others, NoCall
<1>8. Alone' /\ LonePush'
  BY <1>7 DEF Alone, LonePush
<1>9. Undisturbed'
  <2> SUFFICES ASSUME ~disturbed'
               PROVE  /\ Readable(live)'
                      /\ \A v \in Writers : (pc[v] # "idle" => call[v].alone /\ v \notin Overwriters)'
    BY DEF Undisturbed
  <2>1. call[w].alone
    BY <1>1, <1>2 DEF IInv, Undisturbed, TypeOK
  <2>2. file[tmp] = call[w].draft
    BY <1>2, <1>4, <2>1 DEF IInv, LonePush
  <2>3. file[tmp] \in States
    BY <1>1, <2>2 DEF TypeOK, Calls
  <2>4. Readable(live)'
    BY <1>2, <2>3, States' = States DEF Readable
  <2>5. \A v \in Writers : pc'[v] = "idle"
    BY <1>3, <2>1 DEF IInv, Alone, Others
  <2> QED BY <2>4, <2>5
<1> QED BY <1>5, <1>6, <1>8, <1>9 DEF IInv
\* Calls end without publishing: one that is refused, or all of a process.
LEMMA CallsLost ==
  ASSUME IInv, TypeOK', UNCHANGED <<fileVars, pushes, disturbed>>,
         \A v \in Writers :
           \/ pc'[v] = "idle" /\ call'[v] = NoCall
           \/ pc'[v] = pc[v] /\ call'[v] = call[v] /\ fd'[v] = fd[v]
  PROVE  IInv'
<1>1. TypeOK
  BY DEF IInv
<1>2. UNCHANGED <<file, live, tmp, pushes, disturbed>>
  BY DEF fileVars
<1>3. Roles'
  BY <1>2, Files' = Files DEF IInv, Roles
<1>4. Apart'
  <2>1. \A v \in Writers : call'[v].num <= pushes
    BY <1>1, FaceAssumption DEF IInv, Apart, NoCall, TypeOK
  <2>2. \A v \in Writers : pc'[v] = "open_tmp" => pc[v] = "open_tmp" /\ call'[v] = call[v]
    OBVIOUS
  <2> QED BY <1>2, <2>1, <2>2 DEF IInv, Apart
<1>5. \A v \in Writers : Others(v)' \subseteq Others(v)
  BY DEF Others
<1>6. \A v \in Writers : call'[v].alone => pc'[v] = pc[v] /\ call'[v] = call[v] /\ fd'[v] = fd[v]
  BY DEF NoCall
<1>7. Alone'
  BY <1>5, <1>6 DEF IInv, Alone
<1>8. Current' = Current
  BY <1>2, States' = States, Blank' = Blank DEF Current, Readable
<1>9. LonePush'
  BY <1>2, <1>6, <1>8 DEF IInv, LonePush, Merge
<1>10. Undisturbed'
  BY <1>2, States' = States DEF IInv, Undisturbed, Readable
<1> QED BY <1>3, <1>4, <1>7, <1>9, <1>10 DEF IInv

LEMMA StepIInv == IInv /\ [Next]_vars => IInv'
<1> SUFFICES ASSUME IInv, [Next]_vars PROVE IInv'
  OBVIOUS
<1>1. TypeOK /\ TypeOK'
  BY StepTyped DEF IInv
<1>2. ASSUME NEW w \in Writers, Step(w) PROVE IInv'
  <2>1. CASE Refused(w)
    <3>1. /\ pc'[w] = "idle" /\ call'[w] = NoCall
          /\ \A v \in Writers : v # w => pc'[v] = pc[v] /\ call'[v] = call[v]
      BY <1>1, <2>1, EndClears DEF Refused
    <3> QED BY <1>1, <2>1, <3>1, CallsLost DEF Refused
  <2> QED
    BY <1>1, <1>2, <2>1, CallsBegin, OpenTmpKeeps, OpenLiveKeeps, FlushKeeps, ReplaceKeeps DEF Step
<1>3. ASSUME NEW P \in Processes, Kill(P) PROVE IInv'
  <2>1. \A v \in Writers :
          \/ pc'[v] = "idle" /\ call'[v] = NoCall
          \/ pc'[v] = pc[v] /\ call'[v] = call[v] /\ fd'[v] = fd[v]
    BY <1>3 DEF Kill
  <2> QED BY <1>1, <1>3, <2>1, CallsLost DEF Kill
<1>4. CASE UNCHANGED vars
  BY <1>1, <1>4, CallsLost DEF vars, callVars, fileVars
<1> QED BY <1>2, <1>3, <1>4 DEF Next

\* From the moment a push ran alone until calls meet or somebody writes in
\* place, the overlay reads whole states: for every set of writers and
\* processes, whoever is killed and whatever is left under the temporary name.
THEOREM UndisturbedReadable == Spec => []UndisturbedIsReadable
<1>1. IInv => UndisturbedIsReadable
  BY DEF IInv, Undisturbed, UndisturbedIsReadable
<1> QED BY InitIInv, StepIInv, <1>1, PTL DEF Spec

\* What a push that met no other call publishes is the state of that moment
\* with its own fields set.
THEOREM LonePushPublishes == Spec => LonePushMerges
<1> DEFINE Merges ==
      \A w \in Writers :
        Replace(w) /\ call[w].alone =>
          file[tmp] = Merge(IF Readable(live) THEN file[live] ELSE Blank, call[w].kw, call[w].num)
<1>1. IInv => Merges
  <2> SUFFICES ASSUME IInv, NEW w \in Writers, Replace(w), call[w].alone
               PROVE  file[tmp] = Merge(Current, call[w].kw, call[w].num)
    BY DEF Current
  <2>1. pc[w] = "replace"
    BY DEF Replace
  <2>2. w \notin Overwriters
    BY <2>1 DEF IInv, Roles
  <2> QED BY <2>1, <2>2 DEF IInv, LonePush
<1>2. IInv /\ [Next]_vars => [Merges]_vars
  BY <1>1
<1> QED BY InitIInv, StepIInv, <1>2, PTL DEF Spec, LonePushMerges
=============================================================================
