-------------------------- MODULE Precompile_proofs --------------------------
(***************************************************************************)
(* Proofs that a load yields the right code, and that leases keep saved    *)
(* content and do not outlive their loads, for any number of shims,        *)
(* engines, images and layers, whatever crashes, refused requests, removed *)
(* images and collections happen; that with one engine a label names       *)
(* content that is there; and that a load succeeds when nothing fails.     *)
(* The write of compiled content is the subject of the last section, on    *)
(* the instance Save of SaveContent.                                       *)
(***************************************************************************)
EXTENDS Precompile, SequenceTheorems, TLAPS

(* Where no load is in progress, and where its code is being stored. *)
Ended == {"idle", "ok", "err", "dead"}
Saving == {"next", "lease"} \cup Guarded

(* q is what may be run for the first layers of image i by engine e. *)
Right(i, e, q) ==
  /\ q \in Seq(Codes) /\ Len(q) <= Len(configs(i))
  /\ \A k \in 1 .. Len(q) : q[k] \in {configs(i)[k], <<configs(i)[k], e>>}

(* q is what the compiler may answer for them. *)
Answers(i, e, q) ==
  /\ q \in Seq(Codes \cup {None}) /\ Len(q) <= Len(configs(i))
  /\ \A k \in 1 .. Len(q) : q[k] \in {None, <<configs(i)[k], e>>}

(***************************************************************************)
(* What a shim with engine e knows at p, of image i at its layer n: ls has *)
(* been read, cs is what was compiled, labels is what get_info said and o  *)
(* is layers_for_runtime.                                                  *)
(***************************************************************************)
LocalInv(e, p, i, n, ls, cs, labels, o) ==
  /\ p \in Ended => ls = <<>> /\ cs = <<>>
  /\ p \notin Ended => i \in Images /\ Right(i, e, ls)
  /\ p \notin Ended \cup {"manifest"} => i \in WasmImages
  /\ p \in Reading => cs = <<>> /\ o = <<>> /\ n = Len(ls) + 1
  /\ p = "manifest" => ls = <<>>
  /\ p \in Reading \ {"manifest"} => Len(ls) < Len(configs(i))
  /\ p = "cached" => labels[e] = <<configs(i)[n], e>>
  /\ p = "compile" =>
       /\ o = <<>> /\ Len(ls) = Len(configs(i)) /\ n \in 1 .. Len(ls) + 1
       /\ Len(cs) < n /\ (Len(cs) = n - 1 => Answers(i, e, cs))
  /\ p \in Saving =>
       /\ Len(ls) = Len(configs(i)) /\ Len(cs) = Len(ls) /\ Answers(i, e, cs)
       /\ n \in 1 .. Len(ls) + 1
       /\ p # "next" => n <= Len(ls) /\ cs[n] # None
       /\ p # "drop" => Right(i, e, o) /\ Len(o) = IF p = "release" THEN n ELSE n - 1
  /\ p = "layer_update" => \A f \in Engines : labels[f] \in {None, <<configs(i)[n], f>>}
  /\ p = "ok" /\ i \in WasmImages => Right(i, e, o) /\ Len(o) = Len(configs(i))

Local(s) ==
  LocalInv(EngineOf[s], pc[s], img[s], idx[s], layers[s], compiled[s], info[s].cache, out[s])

(* A label of a layer names what its engine compiled from that layer. *)
CacheRight == \A l \in Layers, e \in Engines : cache[l][e] \in {None, <<l, e>>}

(* A shim with a guard owns a living lease, which holds what it has saved. *)
Guard(s) ==
  /\ pc[s] \in Guarded => /\ leases[Label(s)] # None /\ leases[Label(s)].owner = s
                          /\ ~leases[Label(s)].stale
  /\ pc[s] \in Saved => Code(s) \in leases[Label(s)].holds /\ Code(s) \in content

IInv == TypeOK /\ CacheRight /\ LeaseReleased /\ \A s \in Shims : Local(s) /\ Guard(s)

-----------------------------------------------------------------------------
LEMMA ConfigType ==
  ASSUME NEW i \in Images
  PROVE  /\ configs(i) \in Seq(Layers) /\ Len(configs(i)) \in Nat /\ Len(configs(i)) <= MaxLayers
         /\ \A k \in 1 .. Len(configs(i)) : configs(i)[k] \in Layers
<1>1. configs(i) \in Seq(Layers) /\ Len(configs(i)) <= MaxLayers
  BY ConfigsAssumption, Zenon
<1> QED BY <1>1, ElementOfSeq, LenProperties, Zenon

LEMMA RightAppend ==
  ASSUME NEW i \in Images, NEW e \in Engines, NEW q, Right(i, e, q), Len(q) < Len(configs(i)),
         NEW code \in {configs(i)[Len(q) + 1], <<configs(i)[Len(q) + 1], e>>}
  PROVE  Right(i, e, Append(q, code)) /\ Len(Append(q, code)) = Len(q) + 1
<1>1. Len(q) \in Nat /\ code \in Codes
  BY ConfigType, LenProperties DEF Right, Codes
<1>2. /\ Append(q, code) \in Seq(Codes) /\ Len(Append(q, code)) = Len(q) + 1
      /\ Append(q, code)[Len(q) + 1] = code
      /\ \A k \in 1 .. Len(q) : Append(q, code)[k] = q[k]
  BY <1>1, AppendProperties DEF Right
<1> QED BY <1>1, <1>2, ConfigType DEF Right

LEMMA AnswersAppend ==
  ASSUME NEW i \in Images, NEW e \in Engines, NEW q, Answers(i, e, q),
         Len(q) < Len(configs(i)), NEW code \in {None, <<configs(i)[Len(q) + 1], e>>}
  PROVE  Answers(i, e, Append(q, code)) /\ Len(Append(q, code)) = Len(q) + 1
<1>1. Len(q) \in Nat /\ code \in Codes \cup {None}
  BY ConfigType, LenProperties DEF Answers, Codes
<1>2. /\ Append(q, code) \in Seq(Codes \cup {None}) /\ Len(Append(q, code)) = Len(q) + 1
      /\ Append(q, code)[Len(q) + 1] = code
      /\ \A k \in 1 .. Len(q) : Append(q, code)[k] = q[k]
  BY <1>1, AppendProperties DEF Answers
<1> QED BY <1>1, <1>2, ConfigType DEF Answers

LEMMA Empty ==
  ASSUME NEW i \in Images, NEW e \in Engines
  PROVE  /\ Right(i, e, <<>>) /\ Answers(i, e, <<>>) /\ Len(<<>>) = 0
         /\ <<>> \in Seq(Codes) /\ <<>> \in Seq(Codes \cup {None})
<1>1. Len(<<>>) = 0 /\ <<>> \in Seq(Codes) /\ <<>> \in Seq(Codes \cup {None})
  BY EmptySeq, Zenon
<1> QED BY <1>1, ConfigType DEF Right, Answers

(* The code that is being saved is the compiled form of the layer. *)
LEMMA CodeOf ==
  ASSUME IInv, NEW s \in Shims, pc[s] \in {"lease"} \cup Guarded
  PROVE  /\ Code(s) = <<Layer(s), EngineOf[s]>> /\ Layer(s) \in Layers
         /\ img[s] \in Images /\ idx[s] \in Indices /\ EngineOf[s] \in Engines
<1>1. Local(s) /\ EngineOf[s] \in Engines
  BY EnginesAssumption, Zenon DEF IInv
<1>2. /\ img[s] \in Images /\ Answers(img[s], EngineOf[s], compiled[s])
      /\ Len(compiled[s]) = Len(configs(img[s]))
      /\ idx[s] \in 1 .. Len(configs(img[s])) /\ compiled[s][idx[s]] # None
  BY <1>1, ConfigType DEF Local, LocalInv, Saving, Guarded, Ended
<1>3. compiled[s][idx[s]] = <<configs(img[s])[idx[s]], EngineOf[s]>>
  BY <1>2, Zenon DEF Answers
<1> QED BY <1>1, <1>2, <1>3, ConfigType, ConfigsAssumption DEF Code, Layer, Indices

-----------------------------------------------------------------------------
(* A step of shim s leaves the other shims alone. *)
Apart(s) ==
  \A t \in Shims \ {s} :
    /\ pc'[t] = pc[t] /\ img'[t] = img[t] /\ idx'[t] = idx[t] /\ layers'[t] = layers[t]
    /\ compiled'[t] = compiled[t] /\ info'[t] = info[t] /\ out'[t] = out[t]

LEMMA LocalStep ==
  ASSUME IInv, NEW s \in Shims, Apart(s), Local(s)'
  PROVE  \A t \in Shims : Local(t)'
  BY Zenon DEF IInv, Apart, Local

(* A step that leaves the leases alone. *)
LEMMA QuietStep ==
  ASSUME IInv, NEW s \in Shims, Apart(s), leases' = leases, content' = content,
         pc[s] \in Guarded <=> pc'[s] \in Guarded,
         pc'[s] \in Saved => pc[s] \in Saved /\ idx'[s] = idx[s] /\ compiled'[s] = compiled[s]
  PROVE  LeaseReleased' /\ \A t \in Shims : Guard(t)'
<1>1. \A t \in Shims : Guard(t)'
  <2> SUFFICES ASSUME NEW t \in Shims PROVE Guard(t)'
    OBVIOUS
  <2>1. CASE t = s
    BY <2>1, Zenon DEF IInv, Guard, Label, Code, precompile_label
  <2>2. CASE t # s
    BY <2>2, Zenon DEF IInv, Guard, Apart, Label, Code, precompile_label
  <2> QED BY <2>1, <2>2, Zenon
<1>2. LeaseReleased'
  <2>1. \A e \in Engines : leases[e] # None => leases[e].owner \in Shims
    BY Zenon DEF IInv, TypeOK
  <2> QED BY <2>1, Zenon DEF IInv, LeaseReleased, Apart, Label, precompile_label
<1> QED BY <1>1, <1>2, Zenon

(* A step after which s holds no lease. *)
LEMMA LetGoStep ==
  ASSUME IInv, NEW s \in Shims, Apart(s), content' = content, pc'[s] \notin Guarded,
         \A e \in Engines :
           leases[e] = None \/ leases[e].owner # s => leases'[e] = leases[e],
         \A e \in Engines :
           leases'[e] # None /\ ~leases'[e].stale => leases'[e] = leases[e] /\ leases[e].owner # s
  PROVE  LeaseReleased' /\ \A t \in Shims : Guard(t)'
<1>1. \A t \in Shims : Guard(t)'
  <2> SUFFICES ASSUME NEW t \in Shims PROVE Guard(t)'
    OBVIOUS
  <2>1. CASE t = s
    BY <2>1, Zenon DEF Guard, Saved
  <2>2. CASE t # s
    <3>1. Label(t) \in Engines
      BY EnginesAssumption, Zenon DEF Label, precompile_label
    <3> QED BY <2>2, <3>1 DEF IInv, Guard, Apart, Label, Code, precompile_label, Saved
  <2> QED BY <2>1, <2>2, Zenon
<1>2. LeaseReleased'
  <2>1. \A e \in Engines : leases[e] # None => leases[e].owner \in Shims
    BY Zenon DEF IInv, TypeOK
  <2> QED BY <2>1 DEF IInv, LeaseReleased, Apart, Label, precompile_label
<1> QED BY <1>1, <1>2, Zenon

-----------------------------------------------------------------------------
(* load_modules returns or the shim dies, and s holds no lease after it. *)
LEMMA ForgetLocal ==
  ASSUME IInv, NEW s \in Shims, NEW label \in Ended, NEW result \in Seq(Codes),
         Forget(s, label, result),
         leases' \in [Engines -> [owner : Shims, holds : SUBSET (Layers \X Engines),
                                  stale : BOOLEAN] \cup {None}],
         label = "ok" /\ img[s] \in WasmImages =>
           Right(img[s], EngineOf[s], result) /\ Len(result) = Len(configs(img[s]))
  PROVE  TypeOK' /\ CacheRight' /\ Apart(s) /\ pc'[s] = label /\ \A t \in Shims : Local(t)'
<1> USE DEF Forget, Goto
<1>1. TypeOK'
  <2>1. NoLabels \in [cache : [Engines -> (Layers \X Engines) \cup {Flag, None}],
                      ref : [Indices -> (Layers \X Engines) \cup {None}]]
    BY Zenon DEF NoLabels
  <2>2. <<>> \in Seq(Codes) /\ <<>> \in Seq(Codes \cup {None}) /\ 0 \in 0 .. MaxLayers + 1
    BY EmptySeq, ConfigsAssumption
  <2> QED BY <2>1, <2>2, Zenon DEF IInv, TypeOK, Ended
<1>2. CacheRight'
  BY Zenon DEF IInv, CacheRight
<1>3. Apart(s) /\ pc'[s] = label
  BY Zenon DEF IInv, TypeOK, Apart
<1>4. Local(s)'
  <2>1. /\ pc'[s] = label /\ img'[s] = img[s] /\ layers'[s] = <<>> /\ compiled'[s] = <<>>
        /\ out'[s] = result
    BY Zenon DEF IInv, TypeOK
  <2> QED BY <2>1, Zenon DEF Local, LocalInv, Ended, Reading, Saving, Guarded
<1> QED BY <1>1, <1>2, <1>3, <1>4, LocalStep, Zenon

LEMMA FailStep ==
  ASSUME IInv, NEW s \in Shims, pc[s] \notin Guarded, Fail(s)
  PROVE  IInv'
<1>1. <<>> \in Seq(Codes) /\ "err" \in Ended
  BY EmptySeq, Zenon DEF Ended
<1>2. TypeOK' /\ CacheRight' /\ Apart(s) /\ pc'[s] = "err" /\ \A t \in Shims : Local(t)'
  BY <1>1, ForgetLocal, Zenon DEF Fail, IInv, TypeOK
<1>3. LeaseReleased' /\ \A t \in Shims : Guard(t)'
  BY <1>2, QuietStep, Zenon DEF Fail, Forget, Saved, Guarded
<1> QED BY <1>2, <1>3, Zenon DEF IInv

LEMMA ReturnStep ==
  ASSUME IInv, NEW s \in Shims, pc[s] \notin Guarded, NEW result \in Seq(Codes),
         Return(s, result),
         img[s] \in WasmImages =>
           Right(img[s], EngineOf[s], result) /\ Len(result) = Len(configs(img[s]))
  PROVE  IInv'
<1>1. TypeOK' /\ CacheRight' /\ Apart(s) /\ pc'[s] = "ok" /\ \A t \in Shims : Local(t)'
  BY ForgetLocal, Zenon DEF Return, IInv, TypeOK, Ended
<1>2. LeaseReleased' /\ \A t \in Shims : Guard(t)'
  BY <1>1, QuietStep, Zenon DEF Return, Forget, Saved, Guarded
<1> QED BY <1>1, <1>2, Zenon DEF IInv

(* A shim moves on and changes nothing else. *)
LEMMA MoveStep ==
  ASSUME IInv, NEW s \in Shims, NEW label, Goto(s, label), UNCHANGED <<store, local>>,
         \/ /\ pc[s] = "manifest" /\ img[s] \in WasmImages /\ configs(img[s]) # <<>>
            /\ label \in {"image_info", "original"}
         \/ pc[s] \in Guarded /\ label = "drop"
         \/ pc[s] = "next" /\ label = "lease" /\ idx[s] <= Len(compiled[s]) /\ Code(s) # None
  PROVE  IInv'
<1> USE DEF Goto, store, local
<1>0. Local(s) /\ EngineOf[s] \in Engines
  BY EnginesAssumption, Zenon DEF IInv
<1>1. TypeOK'
  BY Zenon DEF IInv, TypeOK, Reading, Guarded
<1>2. CacheRight'
  BY Zenon DEF IInv, CacheRight
<1>3. Apart(s) /\ pc'[s] = label
  BY Zenon DEF IInv, TypeOK, Apart
<1>4. Local(s)'
  <2>1. CASE pc[s] = "manifest"
    <3>1. label \in {"image_info", "original"} /\ img[s] \in WasmImages /\ configs(img[s]) # <<>>
      BY <2>1, Zenon DEF Guarded
    <3>2. img[s] \in Images /\ Len(configs(img[s])) > 0
      BY <3>1, <1>0, <2>1, ConfigType, EmptySeq DEF Local, LocalInv, Ended
    <3>3. layers[s] = <<>> /\ Len(<<>>) = 0
      BY <1>0, <2>1, <3>2, Empty, Zenon DEF Local, LocalInv
    <3> QED BY <1>0, <1>3, <2>1, <3>1, <3>2, <3>3, Zenon
            DEF Local, LocalInv, Ended, Reading, Saving, Guarded
  <2>2. CASE pc[s] \in Guarded /\ label = "drop"
    BY <1>0, <1>3, <2>2, Zenon DEF Local, LocalInv, Ended, Reading, Saving, Guarded
  <2>3. CASE pc[s] = "next"
    <3>1. label = "lease" /\ idx[s] <= Len(compiled[s]) /\ Code(s) # None
      BY <2>3, Zenon DEF Guarded
    <3> QED BY <1>0, <1>3, <2>3, <3>1, Zenon DEF Local, LocalInv, Ended, Reading, Saving, Guarded, Code
  <2> QED BY <2>1, <2>2, <2>3, Zenon
<1>5. LeaseReleased' /\ \A t \in Shims : Guard(t)'
  <2>1. pc[s] \in Guarded <=> label \in Guarded
    BY Zenon DEF Guarded
  <2>2. label \notin Saved
    BY Zenon DEF Saved, Guarded
  <2> QED BY <1>3, <2>1, <2>2, QuietStep, Zenon
<1> QED BY <1>1, <1>2, <1>3, <1>4, <1>5, LocalStep, Zenon DEF IInv

LEMMA NotCachedStep ==
  ASSUME IInv, NEW s \in Shims, pc[s] \in {"layer_info", "cached"}, NotCached(s)
  PROVE  IInv'
<1> USE DEF NotCached, Goto, store
<1>1. TypeOK'
  BY Zenon DEF IInv, TypeOK, Reading
<1>2. CacheRight'
  BY Zenon DEF IInv, CacheRight
<1>3. Apart(s) /\ pc'[s] = "original"
  BY Zenon DEF IInv, TypeOK, Apart
<1>4. Local(s)'
  BY <1>3, Zenon DEF IInv, Local, LocalInv, Ended, Reading, Saving, Guarded
<1>5. LeaseReleased' /\ \A t \in Shims : Guard(t)'
  BY <1>3, QuietStep, Zenon DEF Saved, Guarded
<1> QED BY <1>1, <1>2, <1>3, <1>4, <1>5, LocalStep, Zenon DEF IInv

LEMMA PushStep ==
  ASSUME IInv, NEW s \in Shims, pc[s] \in {"cached", "original"},
         NEW code \in {Layer(s), <<Layer(s), EngineOf[s]>>}, Push(s, code)
  PROVE  IInv'
<1> DEFINE read == Append(layers[s], code)
           last == Len(read) = Len(configs(img[s]))
<1>0. Local(s) /\ EngineOf[s] \in Engines
  BY EnginesAssumption, Zenon DEF IInv
<1>1. /\ img[s] \in Images /\ img[s] \in WasmImages
      /\ Right(img[s], EngineOf[s], layers[s]) /\ Len(layers[s]) < Len(configs(img[s]))
      /\ idx[s] = Len(layers[s]) + 1 /\ compiled[s] = <<>> /\ out[s] = <<>>
  BY <1>0, Zenon DEF Local, LocalInv, Ended, Reading
<1>2. Right(img[s], EngineOf[s], read) /\ Len(read) = Len(layers[s]) + 1
  <2>1. code \in {configs(img[s])[Len(layers[s]) + 1],
                  <<configs(img[s])[Len(layers[s]) + 1], EngineOf[s]>>}
    BY <1>1, Zenon DEF Layer
  <2> QED BY <1>0, <1>1, <2>1, RightAppend, Zenon
<1>3. Len(configs(img[s])) \in Nat /\ Len(configs(img[s])) <= MaxLayers /\ MaxLayers \in Nat
      /\ Len(read) \in Nat /\ Len(layers[s]) \in Nat /\ Len(read) <= Len(configs(img[s]))
      /\ read \in Seq(Codes)
  BY <1>1, <1>2, ConfigType, ConfigsAssumption, LenProperties, Zenon DEF Right
<1>4. CASE last /\ ~needs[s] /\ Return(s, read)
  BY <1>1, <1>2, <1>3, <1>4, ReturnStep, Zenon DEF Guarded
<1>5. CASE /\ ~last \/ needs[s]
           /\ layers' = [layers EXCEPT ![s] = read]
           /\ idx' = [idx EXCEPT ![s] = IF last THEN 1 ELSE @ + 1]
           /\ Goto(s, IF last THEN "compile"
                      ELSE IF EngineOf[s] \in Precompilers THEN "layer_info" ELSE "original")
           /\ UNCHANGED <<store, img, needs, compiled, info, out>>
  <2> DEFINE label == IF last THEN "compile"
                      ELSE IF EngineOf[s] \in Precompilers THEN "layer_info" ELSE "original"
  <2> USE <1>5 DEF Goto, store
  <2>1. TypeOK'
    <3>1. label \in Reading \cup {"compile"}
      BY Zenon DEF Reading
    <3>2. (IF last THEN 1 ELSE idx[s] + 1) \in 0 .. MaxLayers + 1
      BY <1>1, <1>3
    <3> HIDE DEF label, last, read
    <3> QED BY <3>1, <3>2, <1>3, Zenon DEF IInv, TypeOK, label
  <2>2. CacheRight'
    BY Zenon DEF IInv, CacheRight
  <2>3. Apart(s)
    BY Zenon DEF IInv, TypeOK, Apart
  <2>4. /\ pc'[s] = label /\ layers'[s] = read /\ idx'[s] = (IF last THEN 1 ELSE idx[s] + 1)
        /\ compiled'[s] = <<>> /\ out'[s] = <<>> /\ img'[s] = img[s]
    BY <1>1, Zenon DEF IInv, TypeOK
  <2>5. Local(s)'
    <3>1. CASE last
      BY <3>1, <1>0, <1>1, <1>2, <1>3, <2>4, Empty
      DEF Local, LocalInv, Ended, Reading, Saving, Guarded
    <3>2. CASE ~last
      <4>1. pc'[s] \in {"layer_info", "original"} /\ idx'[s] = Len(read) + 1
            /\ Len(read) < Len(configs(img[s]))
        BY <3>2, <1>1, <1>2, <1>3, <2>4
      <4> HIDE DEF read, label, last
      <4> QED BY <4>1, <1>1, <1>2, <2>4, Zenon DEF Local, LocalInv, Ended, Reading, Saving, Guarded
    <3> QED BY <3>1, <3>2, ZenonT(30)
  <2>6. LeaseReleased' /\ \A t \in Shims : Guard(t)'
    <3>1. pc'[s] \notin Guarded /\ pc[s] \notin Guarded /\ pc'[s] \notin Saved
      BY <2>4 DEF Guarded, Saved
    <3> QED BY <3>1, <2>3, QuietStep, Zenon
  <2> QED BY <2>1, <2>2, <2>3, <2>5, <2>6, LocalStep, Zenon DEF IInv
<1> QED BY <1>4, <1>5, Zenon DEF Push

-----------------------------------------------------------------------------
(* Reading the layers. *)
LEMMA LoadStep ==
  ASSUME IInv, NEW s \in Shims, NEW i \in Images, load_modules(s, i)
  PROVE  IInv'
<1> USE DEF load_modules, Goto, store
<1>0. Local(s) /\ EngineOf[s] \in Engines
  BY EnginesAssumption, Zenon DEF IInv
<1>1. TypeOK'
  BY EmptySeq, ConfigsAssumption, SMTT(30) DEF IInv, TypeOK, Reading
<1>2. CacheRight'
  BY Zenon DEF IInv, CacheRight
<1>3. /\ Apart(s) /\ pc'[s] = "manifest" /\ img'[s] = i /\ idx'[s] = 1 /\ out'[s] = <<>>
      /\ layers'[s] = layers[s] /\ compiled'[s] = compiled[s]
  BY Zenon DEF IInv, TypeOK, Apart
<1>4. Local(s)'
  <2>1. layers[s] = <<>> /\ compiled[s] = <<>>
    BY <1>0, Zenon DEF Local, LocalInv, Ended
  <2> QED BY <1>0, <1>3, <2>1, Empty DEF Local, LocalInv, Ended, Reading, Saving, Guarded
<1>5. LeaseReleased' /\ \A t \in Shims : Guard(t)'
  BY <1>3, QuietStep, Zenon DEF Saved, Guarded
<1> QED BY <1>1, <1>2, <1>3, <1>4, <1>5, LocalStep, Zenon DEF IInv

LEMMA ManifestStep ==
  ASSUME IInv, NEW s \in Shims, read_manifest(s)
  PROVE  IInv'
<1>0. Local(s) /\ EngineOf[s] \in Engines /\ pc[s] = "manifest" /\ pc[s] \notin Guarded
  BY EnginesAssumption, Zenon DEF IInv, read_manifest, Guarded
<1>1. CASE Fail(s)
  BY <1>0, <1>1, FailStep, Zenon
<1>2. CASE (img[s] \notin WasmImages \/ configs(img[s]) = <<>>) /\ Return(s, <<>>)
  <2>1. img[s] \in Images
    BY <1>0, Zenon DEF Local, LocalInv, Ended
  <2> QED BY <1>0, <1>2, <2>1, Empty, ReturnStep, Zenon
<1>3. CASE /\ img[s] \in WasmImages /\ configs(img[s]) # <<>>
           /\ Goto(s, IF EngineOf[s] \in Precompilers THEN "image_info" ELSE "original")
           /\ UNCHANGED <<store, local>>
  BY <1>0, <1>3, MoveStep, Zenon
<1> QED BY <1>1, <1>2, <1>3, Zenon DEF read_manifest

LEMMA ImageInfoStep ==
  ASSUME IInv, NEW s \in Shims, image_info(s)
  PROVE  IInv'
<1>1. CASE Fail(s)
  BY <1>1, FailStep, Zenon DEF image_info, Guarded
<1>2. CASE /\ needs' = [needs EXCEPT ![s] = cache[img[s]][Label(s)] = None]
           /\ Goto(s, "layer_info")
           /\ UNCHANGED <<store, img, idx, layers, compiled, info, out>>
  <2> USE <1>2 DEF image_info, Goto, store
  <2>1. TypeOK'
    BY Zenon DEF IInv, TypeOK, Reading
  <2>2. CacheRight'
    BY Zenon DEF IInv, CacheRight
  <2>3. Apart(s) /\ pc'[s] = "layer_info"
    BY Zenon DEF IInv, TypeOK, Apart
  <2>4. Local(s)'
    BY <2>3, Zenon DEF IInv, Local, LocalInv, Ended, Reading, Saving, Guarded
  <2>5. LeaseReleased' /\ \A t \in Shims : Guard(t)'
    BY <2>3, QuietStep, Zenon DEF Saved, Guarded
  <2> QED BY <2>1, <2>2, <2>3, <2>4, <2>5, LocalStep, Zenon DEF IInv
<1> QED BY <1>1, <1>2, Zenon DEF image_info

(* The layer that is being read. *)
LEMMA LayerOf ==
  ASSUME IInv, NEW s \in Shims, pc[s] \in {"layer_info", "cached", "original"}
  PROVE  Layer(s) \in Layers /\ EngineOf[s] \in Engines
<1>1. Local(s) /\ EngineOf[s] \in Engines
  BY EnginesAssumption, Zenon DEF IInv
<1>2. /\ img[s] \in Images /\ layers[s] \in Seq(Codes)
      /\ Len(layers[s]) < Len(configs(img[s])) /\ idx[s] = Len(layers[s]) + 1
  BY <1>1, Zenon DEF Local, LocalInv, Ended, Reading, Right
<1>3. idx[s] \in 1 .. Len(configs(img[s]))
  BY <1>2, ConfigType, LenProperties
<1> QED BY <1>1, <1>2, <1>3, ConfigType, Zenon DEF Layer

LEMMA LayerInfoStep ==
  ASSUME IInv, NEW s \in Shims, layer_info(s)
  PROVE  IInv'
<1>1. CASE NotCached(s)
  BY <1>1, NotCachedStep, Zenon DEF layer_info
<1>2. CASE /\ Layer(s) \in content /\ cache[Layer(s)][Label(s)] # None
           /\ info' = [info EXCEPT ![s].cache = cache[Layer(s)]]
           /\ Goto(s, "cached")
           /\ UNCHANGED <<store, img, idx, needs, layers, compiled, out>>
  <2> USE <1>2 DEF layer_info, Goto, store
  <2>0. Layer(s) \in Layers /\ EngineOf[s] \in Engines
    BY LayerOf, Zenon
  <2>1. TypeOK'
    <3>1. cache[Layer(s)] \in [Engines -> (Layers \X Engines) \cup {Flag, None}]
      BY <2>0, Zenon DEF IInv, TypeOK
    <3>2. info[s] \in [cache : [Engines -> (Layers \X Engines) \cup {Flag, None}],
                      ref : [Indices -> (Layers \X Engines) \cup {None}]]
      BY Zenon DEF IInv, TypeOK
    <3>3. [info[s] EXCEPT !.cache = cache[Layer(s)]]
            \in [cache : [Engines -> (Layers \X Engines) \cup {Flag, None}],
                 ref : [Indices -> (Layers \X Engines) \cup {None}]]
      BY <3>1, <3>2, Zenon
    <3>4. info' = [info EXCEPT ![s] = [info[s] EXCEPT !.cache = cache[Layer(s)]]]
      BY Zenon DEF IInv, TypeOK
    <3> HIDE <1>2
    <3>5. info' \in [Shims -> [cache : [Engines -> (Layers \X Engines) \cup {Flag, None}],
                              ref : [Indices -> (Layers \X Engines) \cup {None}]]]
      BY <3>3, <3>4, Zenon DEF IInv, TypeOK
    <3> QED BY <1>2, <3>5, Zenon DEF IInv, TypeOK, Reading
  <2>2. CacheRight'
    BY Zenon DEF IInv, CacheRight
  <2>3. Apart(s) /\ pc'[s] = "cached"
    BY Zenon DEF IInv, TypeOK, Apart
  <2>4. info'[s].cache[EngineOf[s]] = <<Layer(s), EngineOf[s]>>
    BY <2>0 DEF IInv, TypeOK, CacheRight, Label, precompile_label
  <2>5. Local(s)'
    BY <2>3, <2>4, Zenon DEF IInv, Local, LocalInv, Ended, Reading, Saving, Guarded, Layer
  <2>6. LeaseReleased' /\ \A t \in Shims : Guard(t)'
    BY <2>3, QuietStep, Zenon DEF Saved, Guarded
  <2> QED BY <2>1, <2>2, <2>3, <2>5, <2>6, LocalStep, Zenon DEF IInv
<1> QED BY <1>1, <1>2, Zenon DEF layer_info

LEMMA ReadStep ==
  ASSUME IInv, NEW s \in Shims, read_cached(s) \/ read_original_layer(s)
  PROVE  IInv'
<1>1. CASE read_cached(s)
  <2>1. info[s].cache[Label(s)] = <<Layer(s), EngineOf[s]>>
    BY <1>1, Zenon DEF read_cached, IInv, Local, LocalInv, Label, precompile_label, Layer
  <2> QED BY <1>1, <2>1, PushStep, NotCachedStep, Zenon DEF read_cached
<1>2. CASE read_original_layer(s)
  BY <1>2, PushStep, FailStep, Zenon DEF read_original_layer, Guarded
<1> QED BY <1>1, <1>2, Zenon

-----------------------------------------------------------------------------
(* Compiling them. *)
LEMMA CompileLayerStep ==
  ASSUME IInv, NEW s \in Shims, pc[s] = "compile", idx[s] <= Len(layers[s]), compile_layer(s)
  PROVE  IInv'
<1> DEFINE code == layers[s][idx[s]]
           answer == CASE Kind(code) = "wasm" -> Append(compiled[s], <<code, EngineOf[s]>>)
                       [] Kind(code) = "compiled" -> Append(compiled[s], None)
                       [] Kind(code) = "unknown" -> compiled[s]
<1>0. Local(s) /\ EngineOf[s] \in Engines
  BY EnginesAssumption, Zenon DEF IInv
<1>1. /\ img[s] \in Images /\ img[s] \in WasmImages /\ Right(img[s], EngineOf[s], layers[s])
      /\ out[s] = <<>> /\ Len(layers[s]) = Len(configs(img[s])) /\ idx[s] \in 1 .. Len(layers[s])
      /\ Len(compiled[s]) < idx[s]
      /\ Len(compiled[s]) = idx[s] - 1 => Answers(img[s], EngineOf[s], compiled[s])
  BY <1>0, ConfigType DEF Local, LocalInv, Ended
<1>2. CASE Return(s, layers[s])
  BY <1>1, <1>2, ReturnStep, Zenon DEF Guarded, Right
<1>3. CASE /\ Kind(code) # "broken"
           /\ compiled' = [compiled EXCEPT ![s] = answer]
           /\ idx' = [idx EXCEPT ![s] = @ + 1]
           /\ UNCHANGED <<store, pc, img, needs, layers, info, out>>
  <2> USE <1>3 DEF store
  <2>0. /\ code \in Codes /\ Kind(code) \in {"wasm", "compiled", "unknown"}
        /\ code \in {configs(img[s])[idx[s]], <<configs(img[s])[idx[s]], EngineOf[s]>>}
        /\ configs(img[s])[idx[s]] \in Layers /\ (Kind(code) = "wasm" => code \in Layers)
    BY <1>0, <1>1, ConfigType, ElementOfSeq, LayersAssumption, Zenon DEF Right, Kind, Codes
  <2>1. Kind(code) = "wasm" => code = configs(img[s])[idx[s]]
    BY <1>0, <2>0, DigestAssumption
  <2>2. compiled[s] \in Seq(Codes \cup {None}) /\ Len(compiled[s]) \in Nat
    BY LenProperties, Zenon DEF IInv, TypeOK
  <2>3. /\ answer \in Seq(Codes \cup {None})
        /\ Len(answer) = Len(compiled[s])
             \/ (Len(answer) = Len(compiled[s]) + 1
                   /\ \E a \in {None, <<configs(img[s])[idx[s]], EngineOf[s]>>} :
                        answer = Append(compiled[s], a))
    <3>1. CASE Kind(code) = "wasm"
      <4>1. answer = Append(compiled[s], <<code, EngineOf[s]>>) /\ <<code, EngineOf[s]>> \in Codes
        BY <3>1, <2>0, <1>0, Zenon DEF Codes
      <4> HIDE DEF code, answer
      <4> QED BY <3>1, <4>1, <2>1, <2>2, AppendProperties
    <3>2. CASE Kind(code) = "compiled"
      <4>1. answer = Append(compiled[s], None)
        BY <3>2, Zenon
      <4> HIDE DEF code, answer
      <4> QED BY <4>1, <2>2, AppendProperties
    <3>3. CASE Kind(code) = "unknown"
      <4>1. answer = compiled[s]
        BY <3>3, Zenon
      <4> HIDE DEF code, answer
      <4> QED BY <4>1, <2>2, Zenon
    <3> QED BY <3>1, <3>2, <3>3, <2>0, Zenon
  <2> HIDE DEF code, answer
  <2>4. TypeOK'
    <3>1. idx[s] + 1 \in 0 .. MaxLayers + 1
      BY <1>1, ConfigType, ConfigsAssumption
    <3> QED BY <2>3, <3>1, Zenon DEF IInv, TypeOK
  <2>5. CacheRight'
    BY Zenon DEF IInv, CacheRight
  <2>6. Apart(s) /\ compiled'[s] = answer /\ idx'[s] = idx[s] + 1
    BY Zenon DEF IInv, TypeOK, Apart
  <2>7. Local(s)'
    <3>1. Len(answer) = idx[s] => Answers(img[s], EngineOf[s], answer)
      <4> SUFFICES ASSUME Len(answer) = idx[s] PROVE Answers(img[s], EngineOf[s], answer)
        OBVIOUS
      <4>1. Len(compiled[s]) = idx[s] - 1 /\ Len(answer) = Len(compiled[s]) + 1
        BY <1>1, <2>2, <2>3
      <4>2. PICK a \in {None, <<configs(img[s])[idx[s]], EngineOf[s]>>} :
              answer = Append(compiled[s], a)
        BY <4>1, <2>2, <2>3
      <4>3. /\ Answers(img[s], EngineOf[s], compiled[s]) /\ Len(compiled[s]) + 1 = idx[s]
            /\ Len(compiled[s]) < Len(configs(img[s]))
        BY <1>1, <4>1, <2>2
      <4>4. a \in {None, <<configs(img[s])[Len(compiled[s]) + 1], EngineOf[s]>>}
        BY <4>2, <4>3, Zenon
      <4> QED BY <4>2, <4>3, <4>4, <1>0, <1>1, AnswersAppend, Zenon
    <3>2. /\ Len(answer) < idx[s] + 1 /\ idx[s] + 1 \in 1 .. Len(layers[s]) + 1
          /\ (Len(answer) = (idx[s] + 1) - 1 => Answers(img[s], EngineOf[s], answer))
      BY <3>1, <1>1, <2>2, <2>3
    <3> QED BY <1>0, <1>1, <2>6, <3>2, Zenon DEF Local, LocalInv, Ended, Reading, Saving, Guarded
  <2>8. LeaseReleased' /\ \A t \in Shims : Guard(t)'
    BY <2>6, QuietStep, Zenon DEF Saved, Guarded
  <2> QED BY <2>4, <2>5, <2>6, <2>7, <2>8, LocalStep, Zenon DEF IInv
<1> QED BY <1>2, <1>3, Zenon DEF compile_layer

LEMMA CompileStep ==
  ASSUME IInv, NEW s \in Shims, compile(s)
  PROVE  IInv'
<1>1. CASE idx[s] <= Len(layers[s]) /\ compile_layer(s)
  BY <1>1, CompileLayerStep, Zenon DEF compile
<1>2. CASE Fail(s)
  BY <1>2, FailStep, Zenon DEF compile, Guarded
<1>3. CASE Answered(s) /\ Len(compiled[s]) = Len(layers[s]) /\ StartSaving(s)
  <2> USE <1>3 DEF StartSaving, Goto, store
  <2>0. Local(s) /\ EngineOf[s] \in Engines /\ pc[s] = "compile" /\ idx[s] > Len(layers[s])
    BY EnginesAssumption, Zenon DEF IInv, Answered
  <2>1. TypeOK'
    BY ConfigsAssumption, SMTT(30) DEF IInv, TypeOK
  <2>2. CacheRight'
    BY Zenon DEF IInv, CacheRight
  <2>3. Apart(s) /\ pc'[s] = "next" /\ idx'[s] = 1
    BY Zenon DEF IInv, TypeOK, Apart
  <2>4. Local(s)'
    <3>1. /\ img[s] \in Images /\ img[s] \in WasmImages
          /\ Right(img[s], EngineOf[s], layers[s])
          /\ Len(layers[s]) = Len(configs(img[s])) /\ out[s] = <<>>
          /\ Len(layers[s]) \in Nat /\ idx[s] \in 1 .. Len(layers[s]) + 1
          /\ Len(compiled[s]) = idx[s] - 1 => Answers(img[s], EngineOf[s], compiled[s])
      BY <2>0, ConfigType, Zenon DEF Local, LocalInv, Ended
    <3>2. Answers(img[s], EngineOf[s], compiled[s])
      BY <2>0, <3>1
    <3>3. Right(img[s], EngineOf[s], out[s]) /\ Len(out[s]) = 0
      BY <2>0, <3>1, Empty, Zenon
    <3> QED BY <2>0, <2>3, <3>1, <3>2, <3>3 DEF Local, LocalInv, Ended, Reading, Saving, Guarded
  <2>5. LeaseReleased' /\ \A t \in Shims : Guard(t)'
    BY <2>0, <2>3, QuietStep, Zenon DEF Saved, Guarded
  <2> QED BY <2>1, <2>2, <2>3, <2>4, <2>5, LocalStep, Zenon DEF IInv
<1> QED BY <1>1, <1>2, <1>3, Zenon DEF compile

LEMMA NextLayerStep ==
  ASSUME IInv, NEW s \in Shims, next_layer(s)
  PROVE  IInv'
<1>0. Local(s) /\ EngineOf[s] \in Engines /\ pc[s] = "next"
  BY EnginesAssumption, Zenon DEF IInv, next_layer
<1>1. /\ img[s] \in Images /\ Right(img[s], EngineOf[s], layers[s])
      /\ Len(layers[s]) = Len(configs(img[s])) /\ Len(compiled[s]) = Len(layers[s])
      /\ Right(img[s], EngineOf[s], out[s]) /\ Len(out[s]) = idx[s] - 1
      /\ Len(layers[s]) \in Nat /\ idx[s] \in 1 .. Len(layers[s]) + 1
  BY <1>0, ConfigType, Zenon DEF Local, LocalInv, Ended, Saving
<1>2. CASE idx[s] > Len(compiled[s]) /\ Return(s, out[s])
  <2>1. Len(out[s]) = Len(configs(img[s]))
    BY <1>1, <1>2, SMTT(30)
  <2> QED BY <1>0, <1>1, <1>2, <2>1, ReturnStep, Zenon DEF Guarded, Right
<1>3. CASE /\ idx[s] <= Len(compiled[s]) /\ Code(s) # None /\ Goto(s, "lease")
           /\ UNCHANGED <<out, idx>>
           /\ UNCHANGED <<store, img, needs, layers, compiled, info>>
  BY <1>0, <1>3, MoveStep, Zenon DEF local
<1>4. CASE /\ idx[s] <= Len(compiled[s])
           /\ out' = [out EXCEPT ![s] = Append(@, layers[s][idx[s]])]
           /\ idx' = [idx EXCEPT ![s] = @ + 1]
           /\ UNCHANGED pc
           /\ UNCHANGED <<store, img, needs, layers, compiled, info>>
  <2> USE <1>4 DEF store
  <2>1. /\ Right(img[s], EngineOf[s], Append(out[s], layers[s][idx[s]]))
        /\ Len(Append(out[s], layers[s][idx[s]])) = idx[s]
    <3>1. idx[s] = Len(out[s]) + 1 /\ Len(out[s]) < Len(configs(img[s])) /\ idx[s] \in 1 .. Len(layers[s])
      BY <1>1, SMTT(30)
    <3>2. layers[s][idx[s]] \in {configs(img[s])[Len(out[s]) + 1],
                                 <<configs(img[s])[Len(out[s]) + 1], EngineOf[s]>>}
      BY <1>1, <3>1, Zenon DEF Right
    <3> QED BY <1>0, <1>1, <3>1, <3>2, RightAppend, Zenon
  <2>2. TypeOK'
    <3>1. idx[s] + 1 \in 0 .. MaxLayers + 1
      BY <1>1, ConfigType, ConfigsAssumption, SMTT(30)
    <3>2. Append(out[s], layers[s][idx[s]]) \in Seq(Codes)
      BY <2>1, Zenon DEF Right
    <3> QED BY <3>1, <3>2, Zenon DEF IInv, TypeOK
  <2>3. CacheRight'
    BY Zenon DEF IInv, CacheRight
  <2>4. Apart(s) /\ idx'[s] = idx[s] + 1 /\ out'[s] = Append(out[s], layers[s][idx[s]])
    BY Zenon DEF IInv, TypeOK, Apart
  <2>5. Local(s)'
    <3>1. idx'[s] \in 1 .. Len(layers[s]) + 1 /\ Len(out'[s]) = idx'[s] - 1
      BY <1>1, <2>1, <2>4
    <3> QED BY <1>0, <2>1, <2>4, <3>1, Zenon DEF Local, LocalInv, Ended, Reading, Saving, Guarded
  <2>6. LeaseReleased' /\ \A t \in Shims : Guard(t)'
    BY <1>0, <2>4, QuietStep, Zenon DEF Saved, Guarded
  <2> QED BY <2>2, <2>3, <2>4, <2>5, <2>6, LocalStep, Zenon DEF IInv
<1> QED BY <1>2, <1>3, <1>4, Zenon DEF next_layer

-----------------------------------------------------------------------------
(* Saving them. *)
LEMMA LeaseNotNone ==
  ASSUME NEW r \in [owner : Shims, holds : SUBSET (Layers \X Engines), stale : BOOLEAN]
  PROVE  r # None
  BY LeaseAssumption, Zenon

LEMMA LeaseStep ==
  ASSUME IInv, NEW s \in Shims, lease(s)
  PROVE  IInv'
<1>0. Local(s) /\ Label(s) = EngineOf[s] /\ EngineOf[s] \in Engines /\ pc[s] = "lease"
  BY EnginesAssumption, Zenon DEF IInv, lease, Label, precompile_label
<1>1. CASE Fail(s)
  BY <1>0, <1>1, FailStep, Zenon DEF Guarded
<1>2. CASE /\ leases[Label(s)] = None
           /\ leases' = [leases EXCEPT ![Label(s)] =
                           [owner |-> s, holds |-> {}, stale |-> FALSE]]
           /\ Goto(s, "write")
           /\ UNCHANGED <<images, content, cache, ref, local>>
  <2> USE <1>2 DEF Goto, local
  <2>1. TypeOK'
    BY <1>0, Zenon DEF IInv, TypeOK, Guarded
  <2>2. CacheRight'
    BY Zenon DEF IInv, CacheRight
  <2>3. Apart(s) /\ pc'[s] = "write"
    BY Zenon DEF IInv, TypeOK, Apart
  <2>4. Local(s)'
    BY <1>0, <2>3, Zenon DEF Local, LocalInv, Ended, Reading, Saving, Guarded
  <2>5. leases'[Label(s)] = [owner |-> s, holds |-> {}, stale |-> FALSE]
        /\ \A e \in Engines \ {Label(s)} : leases'[e] = leases[e]
    BY <1>0 DEF IInv, TypeOK
  <2>6. ASSUME NEW t \in Shims PROVE Guard(t)'
    <3>1. CASE t = s
      <4>1. leases'[Label(s)] # None
        BY <1>0, <2>1, <2>5, DigestAssumption, LeaseNotNone, Zenon
      <4> QED BY <3>1, <4>1, <2>3, <2>5 DEF Guard, Saved, Guarded, Label, precompile_label
    <3>2. CASE t # s
      <4>1. Label(t) \in Engines /\ Guard(t) /\ pc'[t] = pc[t]
        BY <3>2, <2>3, EnginesAssumption, Zenon DEF Label, precompile_label, IInv, Apart
      <4>2. pc[t] \in Guarded => Label(t) # Label(s)
        BY <4>1, Zenon DEF Guard
      <4>3. pc[t] \in Saved => pc[t] \in Guarded
        BY Zenon DEF Saved
      <4> QED BY <4>1, <4>2, <4>3, <2>5, Zenon DEF Guard, Label, precompile_label, Code
    <3> QED BY <3>1, <3>2, Zenon
  <2>7. LeaseReleased'
    <3>1. \A e \in Engines : leases[e] # None => leases[e].owner \in Shims
      BY Zenon DEF IInv, TypeOK
    <3> QED BY <3>1, <1>0, <2>3, <2>5 DEF IInv, LeaseReleased, Apart, Label, precompile_label, Guarded
  <2> QED BY <2>1, <2>2, <2>3, <2>4, <2>6, <2>7, LocalStep, Zenon DEF IInv
<1> QED BY <1>1, <1>2, Zenon DEF lease

LEMMA WriteStep ==
  ASSUME IInv, NEW s \in Shims, write(s)
  PROVE  IInv'
<1> USE DEF write, Goto, local
<1>0. /\ Local(s) /\ Guard(s) /\ Label(s) = EngineOf[s] /\ EngineOf[s] \in Engines /\ pc[s] = "write"
      /\ Code(s) \in Layers \X Engines
  BY EnginesAssumption, CodeOf DEF IInv, Label, precompile_label, Guarded
<1>1. leases[Label(s)] # None /\ leases[Label(s)].owner = s /\ ~leases[Label(s)].stale
  BY <1>0, Zenon DEF Guard, Guarded
<1>2. /\ leases[Label(s)] \in [owner : Shims, holds : SUBSET (Layers \X Engines), stale : BOOLEAN]
      /\ leases' = [leases EXCEPT ![Label(s)] =
                      [leases[Label(s)] EXCEPT !.holds = @ \cup {Code(s)}]]
  BY <1>0, <1>1 DEF IInv, TypeOK
<1> DEFINE new == [leases[Label(s)] EXCEPT !.holds = @ \cup {Code(s)}]
<1>3. /\ new \in [owner : Shims, holds : SUBSET (Layers \X Engines), stale : BOOLEAN]
      /\ new.owner = s /\ ~new.stale /\ Code(s) \in new.holds
  BY <1>0, <1>1, <1>2, Zenon
<1> HIDE DEF new
<1>4. TypeOK'
  <2>1. leases' \in [Engines -> [owner : Shims, holds : SUBSET (Layers \X Engines),
                                 stale : BOOLEAN] \cup {None}]
    BY <1>0, <1>2, <1>3 DEF IInv, TypeOK, new
  <2> QED BY <1>0, <2>1, Zenon DEF IInv, TypeOK, Guarded, Codes
<1>5. CacheRight'
  BY Zenon DEF IInv, CacheRight
<1>6. Apart(s) /\ pc'[s] = "layer_get"
  BY Zenon DEF IInv, TypeOK, Apart
<1>7. Local(s)'
  BY <1>0, <1>6, Zenon DEF Local, LocalInv, Ended, Reading, Saving, Guarded
<1>8. leases'[Label(s)] = new /\ \A e \in Engines \ {Label(s)} : leases'[e] = leases[e]
  <2>1. leases' = [leases EXCEPT ![Label(s)] = new]
    BY <1>2, Zenon DEF new
  <2>2. DOMAIN leases = Engines
    BY Zenon DEF IInv, TypeOK
  <2> HIDE DEF write
  <2> QED BY <1>0, <2>1, <2>2, Zenon
<1>9. ASSUME NEW t \in Shims PROVE Guard(t)'
  <2>1. CASE t = s
    BY <2>1, <1>3, <1>6, <1>8, LeaseNotNone, Zenon DEF Guard, Saved, Guarded, Label, precompile_label, Code
  <2>2. CASE t # s
    <3>1. Label(t) \in Engines /\ Guard(t) /\ pc'[t] = pc[t]
      BY <2>2, <1>6, EnginesAssumption, Zenon DEF Label, precompile_label, IInv, Apart
    <3>2. pc[t] \in Guarded => Label(t) # Label(s)
      BY <1>1, <2>2, <3>1, Zenon DEF Guard
    <3>3. pc[t] \in Saved => pc[t] \in Guarded
      BY Zenon DEF Saved
    <3> QED BY <3>1, <3>2, <3>3, <1>8, Zenon DEF Guard, Label, precompile_label, Code
  <2> QED BY <2>1, <2>2, Zenon
<1>10. LeaseReleased'
  <2>1. \A e \in Engines : leases[e] # None => leases[e].owner \in Shims
    BY Zenon DEF IInv, TypeOK
  <2> QED BY <2>1, <1>0, <1>3, <1>6, <1>8
          DEF IInv, LeaseReleased, Apart, Label, precompile_label, Guarded
<1> QED BY <1>4, <1>5, <1>6, <1>7, <1>9, <1>10, LocalStep, Zenon DEF IInv

LEMMA GetStep ==
  ASSUME IInv, NEW s \in Shims, layer_get(s) \/ image_get(s)
  PROVE  IInv'
<1> DEFINE d == IF pc[s] = "layer_get" THEN Layer(s) ELSE img[s]
           then == IF pc[s] = "layer_get" THEN "layer_update" ELSE "image_update"
<1>0. /\ pc[s] \in {"layer_get", "image_get"} /\ pc[s] \in Guarded
      /\ Get(s, d, then) \/ Gone(s, d)
  BY Zenon DEF layer_get, image_get, Guarded
<1>1. CASE Gone(s, d)
  BY <1>0, <1>1, MoveStep, Zenon DEF Gone
<1>2. CASE Get(s, d, then)
  <2> USE <1>2 DEF Get, Goto, store
  <2>0. /\ Layer(s) \in Layers /\ d \in Images \cup Layers /\ Local(s)
        /\ then \in {"layer_update", "image_update"}
    BY <1>0, CodeOf, Zenon DEF IInv
  <2>1. TypeOK'
    <3>1. [cache |-> cache[d], ref |-> ref[d]]
            \in [cache : [Engines -> (Layers \X Engines) \cup {Flag, None}],
                 ref : [Indices -> (Layers \X Engines) \cup {None}]]
      BY <2>0, Zenon DEF IInv, TypeOK
    <3> HIDE DEF d, then
    <3> QED BY <2>0, <3>1, Zenon DEF IInv, TypeOK, Guarded
  <2>2. CacheRight'
    BY Zenon DEF IInv, CacheRight
  <2>3. Apart(s) /\ pc'[s] = then /\ info'[s].cache = cache[d]
    BY Zenon DEF IInv, TypeOK, Apart
  <2>4. then = "layer_update" => \A f \in Engines : cache[d][f] \in {None, <<Layer(s), f>>}
    BY <2>0, Zenon DEF IInv, CacheRight
  <2>5. Local(s)'
    <3> HIDE DEF d, then
    <3> QED BY <1>0, <2>0, <2>3, <2>4, Zenon DEF Local, LocalInv, Ended, Reading, Saving, Guarded, Layer
  <2>6. LeaseReleased' /\ \A t \in Shims : Guard(t)'
    BY <1>0, <2>3, QuietStep, Zenon DEF Saved, Guarded
  <2> QED BY <2>1, <2>2, <2>3, <2>5, <2>6, LocalStep, Zenon DEF IInv
<1> QED BY <1>0, <1>1, <1>2, Zenon

LEMMA UpdateStep ==
  ASSUME IInv, NEW s \in Shims, layer_update(s) \/ image_update(s)
  PROVE  IInv'
<1> DEFINE d == IF pc[s] = "layer_update" THEN Layer(s) ELSE img[s]
           value == IF pc[s] = "layer_update" THEN Code(s) ELSE Flag
           then == IF pc[s] = "layer_update" THEN "image_get" ELSE "release"
           result == IF pc[s] = "layer_update" THEN out[s] ELSE Append(out[s], Code(s))
<1>0. pc[s] \in {"layer_update", "image_update"} /\ pc[s] \in Guarded /\ Local(s)
  BY Zenon DEF layer_update, image_update, Guarded, IInv
<1>1. CASE Gone(s, d)
  BY <1>0, <1>1, MoveStep, Zenon DEF Gone
<1>2. CASE Update(s, d, value, then) /\ out' = [out EXCEPT ![s] = result]
  <2> USE <1>2 DEF Update, Goto
  <2>0. /\ Code(s) = <<Layer(s), EngineOf[s]>> /\ Layer(s) \in Layers /\ img[s] \in Images
        /\ idx[s] \in Indices /\ EngineOf[s] \in Engines /\ Label(s) = EngineOf[s]
        /\ d \in Images \cup Layers /\ then \in {"image_get", "release"}
        /\ value \in (Layers \X Engines) \cup {Flag, None}
    BY <1>0, CodeOf DEF Label, precompile_label
  <2>1. /\ Right(img[s], EngineOf[s], result)
        /\ Len(result) = IF then = "release" THEN idx[s] ELSE idx[s] - 1
    <3>1. /\ Right(img[s], EngineOf[s], out[s]) /\ Len(out[s]) = idx[s] - 1
          /\ idx[s] <= Len(configs(img[s])) /\ idx[s] \in Nat
      BY <1>0, <2>0, SMTT(30) DEF Local, LocalInv, Saving, Guarded, Indices
    <3>2. CASE pc[s] = "layer_update"
      BY <3>1, <3>2, Zenon
    <3>3. CASE pc[s] = "image_update"
      <4>1. Len(out[s]) + 1 = idx[s] /\ Len(out[s]) < Len(configs(img[s]))
        BY <3>1, <2>0, ConfigType
      <4>2. Code(s) \in {configs(img[s])[Len(out[s]) + 1],
                         <<configs(img[s])[Len(out[s]) + 1], EngineOf[s]>>}
        BY <4>1, <2>0, Zenon DEF Layer
      <4>3. /\ Right(img[s], EngineOf[s], Append(out[s], Code(s)))
            /\ Len(Append(out[s], Code(s))) = Len(out[s]) + 1
        BY <2>0, <3>1, <4>1, <4>2, RightAppend, Zenon
      <4> QED BY <3>3, <4>1, <4>3, Zenon
    <3> QED BY <1>0, <3>2, <3>3, ZenonT(30)
  <2>2. TypeOK'
    <3>1. /\ info[s].cache \in [Engines -> (Layers \X Engines) \cup {Flag, None}]
          /\ info[s].ref \in [Indices -> (Layers \X Engines) \cup {None}]
      BY Zenon DEF IInv, TypeOK
    <3>2. /\ [info[s].cache EXCEPT ![Label(s)] = value]
               \in [Engines -> (Layers \X Engines) \cup {Flag, None}]
          /\ [info[s].ref EXCEPT ![idx[s]] = Code(s)] \in [Indices -> (Layers \X Engines) \cup {None}]
      BY <2>0, <3>1
    <3>3. result \in Seq(Codes)
      BY <2>1, Zenon DEF Right
    <3> HIDE DEF d, value, then, result
    <3>4. /\ cache' \in [Images \cup Layers -> [Engines -> (Layers \X Engines) \cup {Flag, None}]]
          /\ ref' \in [Images \cup Layers -> [Indices -> (Layers \X Engines) \cup {None}]]
      BY <2>0, <3>2, Zenon DEF IInv, TypeOK
    <3> QED BY <2>0, <3>3, <3>4, Zenon DEF IInv, TypeOK, Guarded
  <2>3. CacheRight'
    <3> SUFFICES ASSUME NEW l \in Layers, NEW e \in Engines
                 PROVE  cache'[l][e] \in {None, <<l, e>>}
      BY Zenon DEF CacheRight
    <3>1. cache[l][e] \in {None, <<l, e>>}
      BY Zenon DEF IInv, CacheRight
    <3>2. CASE l # d
      BY <3>1, <3>2, <2>0, Zenon DEF IInv, TypeOK
    <3>3. CASE l = d
      <4>1. pc[s] = "layer_update" /\ l = Layer(s) /\ value = <<l, EngineOf[s]>>
        BY <1>0, <3>3, <2>0, DigestAssumption, Zenon
      <4>2. /\ info[s].cache \in [Engines -> (Layers \X Engines) \cup {Flag, None}]
            /\ \A f \in Engines : info[s].cache[f] \in {None, <<l, f>>}
        BY <1>0, <4>1, Zenon DEF IInv, TypeOK, Local, LocalInv, Layer
      <4>3. cache'[l] = [info[s].cache EXCEPT ![EngineOf[s]] = <<l, EngineOf[s]>>]
        BY <3>3, <4>1, <2>0, Zenon DEF IInv, TypeOK
      <4> QED BY <4>2, <4>3, <2>0
    <3> QED BY <3>2, <3>3, Zenon
  <2>4. Apart(s) /\ pc'[s] = then /\ out'[s] = result
    BY Zenon DEF IInv, TypeOK, Apart
  <2>5. Local(s)'
    <3> HIDE DEF d, value, then, result
    <3> QED BY <1>0, <2>0, <2>1, <2>4, Zenon DEF Local, LocalInv, Ended, Reading, Saving, Guarded
  <2>6. LeaseReleased' /\ \A t \in Shims : Guard(t)'
    BY <1>0, <2>4, QuietStep, Zenon DEF Saved, Guarded
  <2> QED BY <2>2, <2>3, <2>4, <2>5, <2>6, LocalStep, Zenon DEF IInv
<1>3. Gone(s, d) \/ (Update(s, d, value, then) /\ out' = [out EXCEPT ![s] = result])
  <2>1. CASE layer_update(s)
    <3>1. out' = out => out' = [out EXCEPT ![s] = out[s]]
      BY Zenon DEF IInv, TypeOK
    <3> QED BY <2>1, <3>1, Zenon DEF layer_update
  <2>2. CASE image_update(s)
    BY <2>2, Zenon DEF image_update
  <2> QED BY <2>1, <2>2, Zenon
<1> QED BY <1>1, <1>2, <1>3, Zenon

(* The guard goes, with the lease or without it. *)
LEMMA DeleteLease ==
  ASSUME IInv, NEW s \in Shims, pc[s] \in Guarded, Delete(s)
  PROVE  /\ leases' \in [Engines -> [owner : Shims, holds : SUBSET (Layers \X Engines),
                                    stale : BOOLEAN] \cup {None}]
         /\ \A e \in Engines : leases[e] = None \/ leases[e].owner # s => leases'[e] = leases[e]
         /\ \A e \in Engines :
              leases'[e] # None /\ ~leases'[e].stale =>
                leases'[e] = leases[e] /\ leases[e].owner # s
<1> DEFINE new == [leases[Label(s)] EXCEPT !.stale = TRUE]
<1>1. /\ Label(s) \in Engines /\ leases[Label(s)] # None /\ leases[Label(s)].owner = s
      /\ leases[Label(s)] \in [owner : Shims, holds : SUBSET (Layers \X Engines), stale : BOOLEAN]
  BY EnginesAssumption DEF IInv, TypeOK, Guard, Label, precompile_label
<1>2. new \in [owner : Shims, holds : SUBSET (Layers \X Engines), stale : BOOLEAN] /\ new.stale
  BY <1>1, Zenon
<1>3. PICK v \in {None, new} : leases' = [leases EXCEPT ![Label(s)] = v]
  BY Zenon DEF Delete, IInv, TypeOK
<1> HIDE DEF new
<1>4. leases'[Label(s)] = v /\ \A e \in Engines \ {Label(s)} : leases'[e] = leases[e]
  BY <1>1, <1>3, Zenon DEF IInv, TypeOK
<1>5. \A e \in Engines \ {Label(s)} : leases[e] # None /\ ~leases[e].stale => leases[e].owner # s
  BY Zenon DEF IInv, LeaseReleased
<1>6. leases' \in [Engines -> [owner : Shims, holds : SUBSET (Layers \X Engines),
                               stale : BOOLEAN] \cup {None}]
  BY <1>1, <1>2, <1>3, Zenon DEF IInv, TypeOK
<1> QED BY <1>1, <1>2, <1>4, <1>5, <1>6, Zenon

LEMMA ReleaseStep ==
  ASSUME IInv, NEW s \in Shims, release(s)
  PROVE  IInv'
<1> USE DEF release, Goto
<1>0. /\ Local(s) /\ EngineOf[s] \in Engines /\ pc[s] = "release" /\ pc[s] \in Guarded
      /\ img[s] \in Images /\ idx[s] \in Indices
  BY CodeOf, Zenon DEF IInv, Guarded
<1>1. TypeOK'
  <2>1. idx[s] + 1 \in 0 .. MaxLayers + 1
    BY <1>0, ConfigsAssumption DEF Indices
  <2> QED BY <1>0, <2>1, DeleteLease, Zenon DEF IInv, TypeOK
<1>2. CacheRight'
  BY Zenon DEF IInv, CacheRight
<1>3. Apart(s) /\ pc'[s] = "next" /\ idx'[s] = idx[s] + 1
  BY Zenon DEF IInv, TypeOK, Apart
<1>4. Local(s)'
  <2>1. /\ idx[s] + 1 \in 1 .. Len(layers[s]) + 1 /\ Len(out[s]) = (idx[s] + 1) - 1
    BY <1>0, ConfigType DEF Local, LocalInv, Saving, Indices
  <2> QED BY <1>0, <1>3, <2>1, Zenon DEF Local, LocalInv, Ended, Reading, Saving, Guarded
<1>5. LeaseReleased' /\ \A t \in Shims : Guard(t)'
  BY <1>0, <1>3, DeleteLease, LetGoStep, Zenon DEF Guarded
<1> QED BY <1>1, <1>2, <1>3, <1>4, <1>5, LocalStep, Zenon DEF IInv

LEMMA DropStep ==
  ASSUME IInv, NEW s \in Shims, drop(s)
  PROVE  IInv'
<1>0. pc[s] \in Guarded /\ <<>> \in Seq(Codes) /\ "err" \in Ended /\ Delete(s)
  BY EmptySeq, Zenon DEF drop, Guarded, Ended
<1>1. TypeOK' /\ CacheRight' /\ Apart(s) /\ pc'[s] = "err" /\ \A t \in Shims : Local(t)'
  BY <1>0, ForgetLocal, DeleteLease, Zenon DEF drop
<1>2. LeaseReleased' /\ \A t \in Shims : Guard(t)'
  BY <1>0, <1>1, DeleteLease, LetGoStep, Zenon DEF drop, Forget, Guarded
<1> QED BY <1>1, <1>2, Zenon DEF IInv

-----------------------------------------------------------------------------
(* Faults and the world around the shims. *)
LEMMA CrashStep ==
  ASSUME IInv, NEW s \in Shims, crash(s)
  PROVE  IInv'
<1>0. <<>> \in Seq(Codes) /\ "dead" \in Ended
  BY EmptySeq, Zenon DEF Ended
<1>1. \A e \in Engines :
        /\ leases[e] = None \/ leases[e].owner # s => leases'[e] = leases[e]
        /\ leases[e] # None /\ leases[e].owner = s =>
             leases'[e] = [leases[e] EXCEPT !.stale = TRUE]
  BY Zenon DEF crash
<1>2. \A e \in Engines : leases[e] # None =>
        leases[e] \in [owner : Shims, holds : SUBSET (Layers \X Engines), stale : BOOLEAN]
  BY Zenon DEF IInv, TypeOK
<1>3. \A e \in Engines : leases[e] # None =>
        /\ [leases[e] EXCEPT !.stale = TRUE]
             \in [owner : Shims, holds : SUBSET (Layers \X Engines), stale : BOOLEAN]
        /\ [leases[e] EXCEPT !.stale = TRUE].stale
  BY <1>2, Zenon
<1>4. leases' \in [Engines -> [owner : Shims, holds : SUBSET (Layers \X Engines),
                               stale : BOOLEAN] \cup {None}]
  <2>1. leases' = [e \in Engines |-> leases'[e]]
    BY Zenon DEF crash
  <2>2. \A e \in Engines :
          leases'[e] \in [owner : Shims, holds : SUBSET (Layers \X Engines),
                          stale : BOOLEAN] \cup {None}
    BY <1>1, <1>2, <1>3, ZenonT(30)
  <2> QED BY <2>1, <2>2, Zenon
<1>5. TypeOK' /\ CacheRight' /\ Apart(s) /\ pc'[s] = "dead" /\ \A t \in Shims : Local(t)'
  BY <1>0, <1>4, ForgetLocal, Zenon DEF crash
<1>6. LeaseReleased' /\ \A t \in Shims : Guard(t)'
  BY <1>1, <1>3, <1>5, LetGoStep, Zenon DEF crash, Forget, Guarded
<1> QED BY <1>5, <1>6, Zenon DEF IInv

LEMMA RpcErrorStep ==
  ASSUME IInv, NEW s \in Shims, rpc_error(s)
  PROVE  IInv'
<1>1. CASE pc[s] \in Guarded /\ Goto(s, "drop") /\ UNCHANGED <<store, local>>
  BY <1>1, MoveStep, Zenon
<1>2. CASE pc[s] \in {"layer_info", "cached"} /\ NotCached(s)
  BY <1>2, NotCachedStep, Zenon
<1>3. CASE pc[s] \notin Guarded /\ Fail(s)
  BY <1>3, FailStep, Zenon
<1> QED BY <1>1, <1>2, <1>3, Zenon DEF rpc_error

(* What happens outside the shims moves none of them. *)
LEMMA LocalKept ==
  ASSUME IInv, UNCHANGED <<pc, local>>
  PROVE  \A t \in Shims : Local(t)'
  BY Zenon DEF IInv, local, Local

LEMMA ExpireStep ==
  ASSUME IInv, NEW e \in Engines, expire(e)
  PROVE  IInv'
<1> USE DEF expire
<1>1. TypeOK' /\ CacheRight'
  BY Zenon DEF IInv, TypeOK, CacheRight, local
<1>2. leases'[e] = None /\ \A f \in Engines \ {e} : leases'[f] = leases[f]
  BY Zenon DEF IInv, TypeOK
<1>3. ASSUME NEW t \in Shims PROVE Guard(t)'
  <2>1. Guard(t) /\ Label(t) \in Engines
    BY EnginesAssumption, Zenon DEF IInv, Label, precompile_label
  <2>2. pc[t] \in Guarded => Label(t) # e
    BY <2>1, Zenon DEF Guard
  <2> QED BY <1>2, <2>1, <2>2, Zenon DEF Guard, Saved, Label, precompile_label, Code, local
<1>4. LeaseReleased'
  BY <1>2, Zenon DEF IInv, LeaseReleased, Label, precompile_label, local
<1> QED BY <1>1, <1>3, <1>4, LocalKept, Zenon DEF IInv

LEMMA CollectStep ==
  ASSUME IInv, collect
  PROVE  IInv'
<1> USE DEF collect
<1>1. TypeOK'
  <2>1. /\ NoLabels.cache \in [Engines -> (Layers \X Engines) \cup {Flag, None}]
        /\ NoLabels.ref \in [Indices -> (Layers \X Engines) \cup {None}]
    BY Zenon DEF NoLabels
  <2> QED BY <2>1, Zenon DEF IInv, TypeOK, local
<1>2. CacheRight'
  BY Zenon DEF IInv, TypeOK, CacheRight, NoLabels
<1>3. ASSUME NEW t \in Shims PROVE Guard(t)'
  <2>1. Guard(t) /\ Label(t) \in Engines
    BY EnginesAssumption, Zenon DEF IInv, Label, precompile_label
  <2>2. pc[t] \in Saved => Code(t) \in Reachable
    BY <2>1 DEF Guard, Saved, Reachable
  <2> QED BY <2>1, <2>2, Zenon DEF Guard, Label, precompile_label, Code, local
<1>4. LeaseReleased'
  BY Zenon DEF IInv, LeaseReleased, Label, precompile_label, local
<1> QED BY <1>1, <1>2, <1>3, <1>4, LocalKept, Zenon DEF IInv

LEMMA ImageStep ==
  ASSUME IInv, NEW i \in Images, remove_image(i) \/ pull(i)
  PROVE  IInv'
<1> USE DEF remove_image, pull
<1>1. TypeOK'
  <2>1. \A k \in 1 .. Len(LayersOf[i]) : LayersOf[i][k] \in Layers
    BY LayersAssumption, ElementOfSeq, Zenon
  <2>2. content' \subseteq Images \cup Codes
    <3>1. content \subseteq Images \cup Codes /\ Layers \subseteq Codes
      BY Zenon DEF IInv, TypeOK, Codes
    <3>2. {LayersOf[i][k] : k \in 1 .. Len(LayersOf[i])} \subseteq Layers
      BY <2>1, Zenon
    <3>3. content' \subseteq content \cup {i} \cup {LayersOf[i][k] : k \in 1 .. Len(LayersOf[i])}
      OBVIOUS
    <3> QED BY <3>1, <3>2, <3>3, Zenon
  <2> QED BY <2>2, Zenon DEF IInv, TypeOK, local
<1>2. CacheRight'
  BY Zenon DEF IInv, CacheRight
<1>3. content \subseteq content' /\ leases' = leases /\ UNCHANGED <<pc, local>>
  OBVIOUS
<1>4. \A t \in Shims : Guard(t)'
  BY <1>3, Zenon DEF IInv, Guard, Label, precompile_label, Code, local
<1>5. LeaseReleased'
  BY <1>3, Zenon DEF IInv, LeaseReleased, Label, precompile_label, local
<1> QED BY <1>1, <1>2, <1>3, <1>4, <1>5, LocalKept, Zenon DEF IInv

-----------------------------------------------------------------------------
LEMMA InitIInv == Init => IInv
<1> SUFFICES ASSUME Init PROVE IInv
  OBVIOUS
<1> USE DEF Init
<1>1. TypeOK
  <2>1. NoLabels \in [cache : [Engines -> (Layers \X Engines) \cup {Flag, None}],
                      ref : [Indices -> (Layers \X Engines) \cup {None}]]
    BY Zenon DEF NoLabels
  <2>2. <<>> \in Seq(Codes) /\ <<>> \in Seq(Codes \cup {None}) /\ 0 \in 0 .. MaxLayers + 1
    BY EmptySeq, ConfigsAssumption
  <2>3. /\ NoLabels.cache \in [Engines -> (Layers \X Engines) \cup {Flag, None}]
        /\ NoLabels.ref \in [Indices -> (Layers \X Engines) \cup {None}]
    BY <2>1, Zenon
  <2>4. images \subseteq Images /\ content \subseteq Images \cup Codes
    BY Zenon DEF Codes
  <2> QED BY <2>1, <2>2, <2>3, <2>4, Zenon DEF TypeOK
<1>2. CacheRight
  BY Zenon DEF CacheRight, NoLabels
<1>3. LeaseReleased
  BY Zenon DEF LeaseReleased
<1>4. ASSUME NEW s \in Shims PROVE Local(s) /\ Guard(s)
  BY Zenon DEF Local, LocalInv, Guard, Ended, Reading, Saving, Guarded, Saved
<1> QED BY <1>1, <1>2, <1>3, <1>4, Zenon DEF IInv

LEMMA NextIInv == IInv /\ [Next]_vars => IInv'
<1> SUFFICES ASSUME IInv, [Next]_vars PROVE IInv'
  OBVIOUS
<1>1. ASSUME NEW s \in Shims, step(s) PROVE IInv'
  BY <1>1, ManifestStep, ImageInfoStep, LayerInfoStep, ReadStep, CompileStep, NextLayerStep,
     LeaseStep, WriteStep, GetStep, UpdateStep, ReleaseStep, DropStep, Zenon
  DEF step
<1>2. CASE UNCHANGED vars
  <2>1. UNCHANGED <<pc, local>> /\ UNCHANGED store
    BY <1>2, Zenon DEF vars, local, store
  <2>2. TypeOK'
    BY <1>2, Zenon DEF vars, IInv, TypeOK
  <2>3. \A t \in Shims : Guard(t)'
    BY <1>2, Zenon DEF vars, IInv, Guard, Label, precompile_label, Code
  <2>4. CacheRight'
    BY <1>2, Zenon DEF vars, IInv, CacheRight
  <2>5. LeaseReleased'
    BY <1>2, Zenon DEF vars, IInv, LeaseReleased, Label, precompile_label
  <2> QED BY <2>1, <2>2, <2>3, <2>4, <2>5, LocalKept, Zenon DEF IInv
<1> QED
  BY <1>1, <1>2, RpcErrorStep, CrashStep, LoadStep, ExpireStep, ImageStep, CollectStep, Zenon DEF Next

LEMMA Invariance == Spec => []IInv
  BY InitIInv, NextIInv, PTL DEF Spec

(* The state of the shims and of the store has its type. *)
THEOREM LoadTypeCorrect == Spec => []TypeOK
<1>1. IInv => TypeOK
  BY Zenon DEF IInv
<1> QED BY <1>1, Invariance, PTL

(* A load that succeeds yields, for every wasm layer and in order, the     *)
(* layer or what this engine compiled from it (load_modules).              *)
THEOREM LoadsRightCode == Spec => []RightCode
<1>1. IInv => RightCode
  BY Zenon DEF IInv, Local, LocalInv, RightCode, Right
<1> QED BY <1>1, Invariance, PTL

(* The collector never takes what a shim has saved and not yet labelled:   *)
(* the lease holds it (save_content).                                      *)
THEOREM LeaseKeepsSaved == Spec => []SavedIsKept
<1>1. IInv => SavedIsKept
  BY Zenon DEF IInv, Guard, SavedIsKept
<1> QED BY <1>1, Invariance, PTL

(* A lease is held by a load in progress, or was left by a shim that was   *)
(* killed or whose request to delete it was refused (LeaseGuard).          *)
THEOREM LeasesAreReleased == Spec => []LeaseReleased
<1>1. IInv => LeaseReleased
  BY Zenon DEF IInv
<1> QED BY <1>1, Invariance, PTL

-----------------------------------------------------------------------------
(* When every shim has the same engine, a label of a layer is of that      *)
(* engine, and the layer is there, refers to the content that the label    *)
(* names, and that content is there: what update_labels writes back keeps  *)
(* no label of another engine whose reference it could lose.               *)
OneEngine == \A s, t \in Shims : EngineOf[s] = EngineOf[t]

Referred ==
  \A l \in Layers, e \in Engines :
    cache[l][e] # None =>
      /\ \A s \in Shims : EngineOf[s] = e
      /\ l \in content /\ cache[l][e] \in content
      /\ \E n \in Indices : ref[l][n] = cache[l][e]

ReadBack ==
  \A s \in Shims :
    pc[s] = "layer_update" =>
      \A e \in Engines \ {EngineOf[s]} : info[s].cache[e] = None

(* A step of s that leaves the labels alone and does not read them.        *)
LEMMA LabelsKept ==
  ASSUME IInv, Referred, ReadBack, NEW s \in Shims, cache' = cache, ref' = ref,
         content \subseteq content',
         \A t \in Shims \ {s} : pc'[t] = pc[t] /\ info'[t] = info[t],
         pc'[s] # "layer_update" \/ (pc'[s] = pc[s] /\ info'[s] = info[s])
  PROVE  Referred' /\ ReadBack'
<1>1. Referred'
  BY Zenon DEF Referred
<1>2. ReadBack'
  <2> SUFFICES ASSUME NEW t \in Shims, pc'[t] = "layer_update",
                      NEW e \in Engines \ {EngineOf[t]}
               PROVE  info'[t].cache[e] = None
    BY Zenon DEF ReadBack
  <2>1. pc'[t] = pc[t] /\ info'[t] = info[t]
    BY Zenon
  <2> QED BY <2>1, Zenon DEF ReadBack
<1> QED BY <1>1, <1>2, Zenon

LEMMA ForgetLabels ==
  ASSUME IInv, Referred, ReadBack, NEW s \in Shims, NEW label \in Ended, NEW result,
         Forget(s, label, result)
  PROVE  Referred' /\ ReadBack'
<1>1. pc'[s] # "layer_update" /\ \A t \in Shims \ {s} : pc'[t] = pc[t] /\ info'[t] = info[t]
  BY Zenon DEF Forget, Goto, IInv, TypeOK, Ended
<1> QED BY <1>1, LabelsKept, Zenon DEF Forget

LEMMA GotoLabels ==
  ASSUME IInv, Referred, ReadBack, NEW s \in Shims, NEW label, label # "layer_update",
         Goto(s, label), cache' = cache, ref' = ref, content \subseteq content',
         \A t \in Shims \ {s} : info'[t] = info[t]
  PROVE  Referred' /\ ReadBack'
<1>1. pc'[s] # "layer_update" /\ \A t \in Shims \ {s} : pc'[t] = pc[t]
  BY Zenon DEF Goto, IInv, TypeOK
<1> QED BY <1>1, LabelsKept, Zenon

LEMMA PushLabels ==
  ASSUME IInv, Referred, ReadBack, NEW s \in Shims, NEW code, Push(s, code)
  PROVE  Referred' /\ ReadBack'
<1>1. ASSUME NEW result, Return(s, result) PROVE Referred' /\ ReadBack'
  BY <1>1, ForgetLabels, Zenon DEF Return, Ended
<1>2. ASSUME NEW label \in {"compile", "layer_info", "original"}, Goto(s, label),
             UNCHANGED <<store, img, needs, compiled, info, out>>
      PROVE  Referred' /\ ReadBack'
  BY <1>2, GotoLabels, Zenon DEF store
<1> QED BY <1>1, <1>2, Zenon DEF Push

(* The steps before a lease, the lease, the write and what gives it back.  *)
LEMMA ReadingLabels ==
  ASSUME IInv, Referred, ReadBack, NEW s \in Shims,
         \/ read_manifest(s) \/ image_info(s) \/ layer_info(s) \/ read_cached(s)
         \/ read_original_layer(s)
  PROVE  Referred' /\ ReadBack'
<1>1. ASSUME Fail(s) \/ \E result : Return(s, result) PROVE Referred' /\ ReadBack'
  BY <1>1, ForgetLabels, Zenon DEF Return, Fail, Ended
<1>2. ASSUME NotCached(s) PROVE Referred' /\ ReadBack'
  BY <1>2, GotoLabels, Zenon DEF NotCached, store
<1>3. CASE read_manifest(s)
  <2>1. ASSUME NEW label \in {"image_info", "original"}, Goto(s, label), UNCHANGED <<store, local>>
        PROVE  Referred' /\ ReadBack'
    BY <2>1, GotoLabels, Zenon DEF store, local
  <2> QED BY <1>1, <1>3, <2>1, Zenon DEF read_manifest
<1>4. CASE image_info(s)
  <2>1. ASSUME Goto(s, "layer_info"), UNCHANGED <<store, img, idx, layers, compiled, info, out>>
        PROVE  Referred' /\ ReadBack'
    BY <2>1, GotoLabels, Zenon DEF store
  <2> QED BY <1>1, <1>4, <2>1, Zenon DEF image_info
<1>5. CASE layer_info(s)
  <2>1. ASSUME Goto(s, "cached"), info' = [info EXCEPT ![s].cache = cache[Layer(s)]],
               UNCHANGED <<store, img, idx, needs, layers, compiled, out>>
        PROVE  Referred' /\ ReadBack'
    <3>1. \A t \in Shims \ {s} : info'[t] = info[t]
      BY <2>1, Zenon DEF IInv, TypeOK
    <3> QED BY <2>1, <3>1, GotoLabels, Zenon DEF store
  <2> QED BY <1>2, <1>5, <2>1, Zenon DEF layer_info
<1>6. CASE read_cached(s)
  BY <1>2, <1>6, PushLabels, Zenon DEF read_cached
<1>7. CASE read_original_layer(s)
  BY <1>1, <1>7, PushLabels, Zenon DEF read_original_layer
<1> QED BY <1>3, <1>4, <1>5, <1>6, <1>7, Zenon

LEMMA CompileLabels ==
  ASSUME IInv, Referred, ReadBack, NEW s \in Shims, compile(s) \/ next_layer(s)
  PROVE  Referred' /\ ReadBack'
<1>1. ASSUME Fail(s) \/ \E result : Return(s, result) PROVE Referred' /\ ReadBack'
  BY <1>1, ForgetLabels, Zenon DEF Return, Fail, Ended
<1>2. ASSUME UNCHANGED <<pc, store, info>> PROVE Referred' /\ ReadBack'
  BY <1>2, LabelsKept, Zenon DEF store
<1>3. ASSUME compile_layer(s) PROVE Referred' /\ ReadBack'
  BY <1>1, <1>2, <1>3, Zenon DEF compile_layer
<1>4. ASSUME StartSaving(s) PROVE Referred' /\ ReadBack'
  BY <1>4, GotoLabels, Zenon DEF StartSaving, store
<1>5. ASSUME Goto(s, "lease"), UNCHANGED <<store, img, needs, layers, compiled, info>>
      PROVE  Referred' /\ ReadBack'
  BY <1>5, GotoLabels, Zenon DEF store
<1> QED BY <1>1, <1>2, <1>3, <1>4, <1>5, Zenon DEF compile, next_layer

LEMMA GuardLabels ==
  ASSUME IInv, Referred, ReadBack, NEW s \in Shims, 
         lease(s) \/ write(s) \/ release(s) \/ drop(s) \/ rpc_error(s) \/ crash(s)
  PROVE  Referred' /\ ReadBack'
<1>1. ASSUME Fail(s) PROVE Referred' /\ ReadBack'
  BY <1>1, ForgetLabels, Zenon DEF Fail, Ended
<1>2. CASE lease(s)
  <2>1. ASSUME Goto(s, "write"), UNCHANGED <<images, content, cache, ref, local>>
        PROVE  Referred' /\ ReadBack'
    BY <2>1, GotoLabels, Zenon DEF local
  <2> QED BY <1>1, <1>2, <2>1, Zenon DEF lease
<1>3. CASE write(s)
  <2>1. Goto(s, "layer_get") /\ content \subseteq content' /\ UNCHANGED <<cache, ref, info>>
    BY <1>3, Zenon DEF write, local
  <2> QED BY <2>1, GotoLabels, Zenon
<1>4. CASE release(s)
  <2>1. Goto(s, "next") /\ content \subseteq content' /\ UNCHANGED <<cache, ref, info>>
    BY <1>4, Zenon DEF release
  <2> QED BY <2>1, GotoLabels, Zenon
<1>5. CASE drop(s)
  BY <1>5, ForgetLabels, Zenon DEF drop, Ended
<1>6. CASE rpc_error(s)
  <2>1. ASSUME Goto(s, "drop"), UNCHANGED <<store, local>> PROVE Referred' /\ ReadBack'
    BY <2>1, GotoLabels, Zenon DEF store, local
  <2>2. ASSUME NotCached(s) PROVE Referred' /\ ReadBack'
    BY <2>2, GotoLabels, Zenon DEF NotCached, store
  <2> QED BY <1>1, <1>6, <2>1, <2>2, Zenon DEF rpc_error
<1>7. CASE crash(s)
  BY <1>7, ForgetLabels, Zenon DEF crash, Ended
<1> QED BY <1>2, <1>3, <1>4, <1>5, <1>6, <1>7, Zenon

(* What get_info returns of a layer has no label of another engine. *)
LEMMA GetLabels ==
  ASSUME IInv, Referred, ReadBack, OneEngine, NEW s \in Shims, layer_get(s) \/ image_get(s)
  PROVE  Referred' /\ ReadBack'
<1>1. ASSUME NEW d, Gone(s, d) PROVE Referred' /\ ReadBack'
  BY <1>1, GotoLabels, Zenon DEF Gone, store, local
<1>2. ASSUME NEW d, Get(s, d, "image_update") PROVE Referred' /\ ReadBack'
  <2>1. \A t \in Shims \ {s} : info'[t] = info[t]
    BY <1>2, Zenon DEF Get, IInv, TypeOK
  <2> QED BY <1>2, <2>1, GotoLabels, Zenon DEF Get, store
<1>3. ASSUME pc[s] = "layer_get", Get(s, Layer(s), "layer_update") PROVE Referred' /\ ReadBack'
  <2>1. Layer(s) \in Layers
    BY <1>3, CodeOf, Zenon DEF Guarded
  <2>2. UNCHANGED <<content, cache, ref>>
    BY <1>3, Zenon DEF Get, store
  <2>3. /\ info'[s].cache = cache[Layer(s)]
        /\ \A t \in Shims \ {s} : pc'[t] = pc[t] /\ info'[t] = info[t]
    BY <1>3, Zenon DEF Get, Goto, IInv, TypeOK
  <2>4. \A e \in Engines \ {EngineOf[s]} : cache[Layer(s)][e] = None
    BY <2>1, Zenon DEF Referred
  <2>5. ReadBack'
    <3> SUFFICES ASSUME NEW t \in Shims, pc'[t] = "layer_update",
                        NEW e \in Engines \ {EngineOf[t]}
                 PROVE  info'[t].cache[e] = None
      BY Zenon DEF ReadBack
    <3>1. CASE t = s
      BY <2>3, <2>4, <3>1, Zenon
    <3>2. CASE t # s
      BY <2>3, <3>2, Zenon DEF ReadBack
    <3> QED BY <3>1, <3>2, Zenon
  <2>6. Referred'
    BY <2>2, Zenon DEF Referred
  <2> QED BY <2>5, <2>6, Zenon
<1> QED BY <1>1, <1>2, <1>3, Zenon DEF layer_get, image_get

(* A layer is labelled together with its reference, for saved content. *)
LEMMA UpdateLabels ==
  ASSUME IInv, Referred, ReadBack, OneEngine, NEW s \in Shims, layer_update(s) \/ image_update(s)
  PROVE  Referred' /\ ReadBack'
<1>1. ASSUME NEW d, Gone(s, d) PROVE Referred' /\ ReadBack'
  BY <1>1, GotoLabels, Zenon DEF Gone, store, local
<1>2. ASSUME NEW d, NEW value, NEW label \in {"image_get", "release"}, Update(s, d, value, label)
      PROVE  ReadBack' /\ content' = content
  <2>1. pc'[s] # "layer_update" /\ info' = info /\ \A t \in Shims \ {s} : pc'[t] = pc[t]
    BY <1>2, Zenon DEF Update, Goto, IInv, TypeOK
  <2> QED BY <1>2, <2>1, Zenon DEF ReadBack, Update
<1>3. ASSUME pc[s] = "layer_update", Update(s, Layer(s), Code(s), "image_get")
      PROVE  Referred'
  <2> DEFINE l == Layer(s)
  <2> DEFINE c == Code(s)
  <2>1. /\ l \in Layers /\ idx[s] \in Indices /\ EngineOf[s] \in Engines
        /\ l \in content /\ c \in content
    BY <1>3, CodeOf, Zenon DEF Guarded, Saved, Update, IInv, Guard
  <2>2. /\ content' = content
        /\ cache' = [cache EXCEPT ![l] = [info[s].cache EXCEPT ![EngineOf[s]] = c]]
        /\ ref' = [ref EXCEPT ![l] = [info[s].ref EXCEPT ![idx[s]] = c]]
    BY <1>3, Zenon DEF Update, Label, precompile_label
  <2> HIDE DEF l, c
  <2>3. /\ cache'[l][EngineOf[s]] = c /\ ref'[l][idx[s]] = c
        /\ \A e \in Engines \ {EngineOf[s]} : cache'[l][e] = info[s].cache[e]
        /\ \A d \in Layers \ {l} : cache'[d] = cache[d] /\ ref'[d] = ref[d]
    BY <2>1, <2>2 DEF IInv, TypeOK
  <2>4. \A e \in Engines \ {EngineOf[s]} : cache'[l][e] = None
    BY <1>3, <2>3, Zenon DEF ReadBack
  <2>5. ASSUME NEW d \in Layers, NEW e \in Engines, cache'[d][e] # None
        PROVE  /\ \A t \in Shims : EngineOf[t] = e
               /\ d \in content' /\ cache'[d][e] \in content'
               /\ \E n \in Indices : ref'[d][n] = cache'[d][e]
    <3>1. CASE d = l
      <4>1. e = EngineOf[s]
        BY <2>4, <2>5, <3>1, Zenon
      <4> QED BY <2>1, <2>2, <2>3, <3>1, <4>1 DEF OneEngine
    <3>2. CASE d # l
      <4>1. cache'[d] = cache[d] /\ ref'[d] = ref[d] /\ content' = content
        BY <2>2, <2>3, <3>2, Zenon
      <4> QED BY <2>5, <4>1 DEF Referred
    <3> QED BY <3>1, <3>2, Zenon
  <2> QED BY <2>5, Zenon DEF Referred
<1>4. ASSUME pc[s] = "image_update", Update(s, img[s], Flag, "release")
      PROVE  Referred'
  <2>1. img[s] \in Images
    BY <1>4, CodeOf, Zenon DEF Guarded
  <2>2. \A d \in Layers : cache'[d] = cache[d] /\ ref'[d] = ref[d]
    BY <1>4, <2>1, DigestAssumption DEF Update, IInv, TypeOK
  <2>3. content' = content
    BY <1>4, Zenon DEF Update
  <2> QED BY <2>2, <2>3 DEF Referred
<1> QED BY <1>1, <1>2, <1>3, <1>4, Zenon DEF layer_update, image_update

(* The collector keeps what a layer refers to, or takes the layer too. *)
LEMMA CollectLabels ==
  ASSUME IInv, Referred, ReadBack, collect
  PROVE  Referred' /\ ReadBack'
<1> USE DEF collect
<1>1. ReadBack'
  BY Zenon DEF ReadBack, local
<1>2. ASSUME NEW l \in Layers, NEW e \in Engines, cache'[l][e] # None
      PROVE  /\ \A s \in Shims : EngineOf[s] = e
             /\ l \in content' /\ cache'[l][e] \in content'
             /\ \E n \in Indices : ref'[l][n] = cache'[l][e]
  <2>1. l \in Reachable
    BY <1>2, Zenon DEF NoLabels
  <2>2. cache'[l] = cache[l] /\ ref'[l] = ref[l]
    BY <2>1, Zenon
  <2>3. /\ \A s \in Shims : EngineOf[s] = e
        /\ l \in content /\ cache[l][e] \in content
        /\ \E n \in Indices : ref[l][n] = cache[l][e]
    BY <1>2, <2>2, Zenon DEF Referred
  <2>4. l \in ImageContent
    <3>1. l \notin Layers \X Engines /\ l # None
      BY DigestAssumption, Zenon
    <3>2. ASSUME NEW d \in ImageContent \cap content, NEW n \in Indices PROVE l # ref[d][n]
      <4>1. d \in Images \cup Layers
        <5>1. ASSUME NEW i \in images, NEW k \in 1 .. Len(LayersOf[i])
              PROVE  LayersOf[i][k] \in Layers
          BY <5>1, LayersAssumption, ElementOfSeq, Zenon DEF IInv, TypeOK
        <5> QED BY <5>1 DEF ImageContent, IInv, TypeOK
      <4> QED BY <3>1, <4>1 DEF IInv, TypeOK
    <3>3. ASSUME NEW f \in Engines, leases[f] # None PROVE l \notin leases[f].holds
      BY <3>1, <3>3, Zenon DEF IInv, TypeOK
    <3> QED BY <2>1, <3>2, <3>3 DEF Reachable
  <2>5. cache[l][e] \in Reachable
    BY <2>3, <2>4 DEF Reachable
  <2> QED BY <2>1, <2>2, <2>3, <2>5, Zenon
<1> QED BY <1>1, <1>2, Zenon DEF Referred

LEMMA NextLabels ==
  OneEngine /\ IInv /\ Referred /\ ReadBack /\ [Next]_vars => Referred' /\ ReadBack'
<1> SUFFICES ASSUME OneEngine, IInv, Referred, ReadBack, [Next]_vars
             PROVE  Referred' /\ ReadBack'
  OBVIOUS
<1>1. ASSUME NEW s \in Shims, step(s) \/ rpc_error(s) \/ crash(s) PROVE Referred' /\ ReadBack'
  BY <1>1, ReadingLabels, CompileLabels, GuardLabels, GetLabels, UpdateLabels, Zenon DEF step
<1>2. ASSUME NEW s \in Shims, NEW i \in Images, load_modules(s, i) PROVE Referred' /\ ReadBack'
  BY <1>2, GotoLabels, Zenon DEF load_modules, store
<1>3. ASSUME UNCHANGED <<cache, ref, pc, local>>, content \subseteq content'
      PROVE  Referred' /\ ReadBack'
  BY <1>3, Zenon DEF local, Referred, ReadBack
<1>4. ASSUME NEW e \in Engines, expire(e) PROVE Referred' /\ ReadBack'
  BY <1>3, <1>4, Zenon DEF expire
<1>5. ASSUME NEW i \in Images, remove_image(i) \/ pull(i) PROVE Referred' /\ ReadBack'
  BY <1>3, <1>5, Zenon DEF remove_image, pull
<1>6. CASE UNCHANGED vars
  BY <1>3, <1>6, Zenon DEF vars, local
<1> QED BY <1>1, <1>2, <1>4, <1>5, <1>6, CollectLabels, Zenon DEF Next

(***************************************************************************)
(* "so it doesn't get cleaned up as long as the original layer exists"     *)
(* (client.rs:502): as long as one engine is used, a label of a layer      *)
(* names content that is there, whatever crashes, refused requests, images *)
(* that come and go and the collector do.  With two engines a run finds    *)
(* the labels of one overwritten by the other.                             *)
(***************************************************************************)
THEOREM OneEngineKeepsLabels == OneEngine => (Spec => []LabelledIsKept)
<1> SUFFICES ASSUME OneEngine PROVE Spec => []LabelledIsKept
  OBVIOUS
<1>1. Init => Referred /\ ReadBack
  BY DEF Init, Referred, ReadBack, NoLabels
<1>2. IInv /\ Referred /\ ReadBack /\ [Next]_vars => Referred' /\ ReadBack'
  BY NextLabels, Zenon
<1>3. Referred => LabelledIsKept
  BY Zenon DEF Referred, LabelledIsKept
<1> QED BY <1>1, <1>2, <1>3, Invariance, PTL DEF Spec

-----------------------------------------------------------------------------
(* Nothing fails, no two shims of an engine load at once, and the compiler *)
(* knows what every layer is.  The collector runs when it likes.           *)
Undisturbed ==
  /\ Faults \subseteq {"collect"}
  /\ \A s, t \in Shims : EngineOf[s] = EngineOf[t] => s = t
  /\ \A l \in Layers : Binary[l] # "unknown"

(* Then the images and their layers stay, a lease is one that a shim is    *)
(* using, every layer is answered for, and no error is on its way.         *)
Served ==
  /\ images = Images /\ Images \subseteq content
  /\ \A i \in Images : \A k \in 1 .. Len(LayersOf[i]) : LayersOf[i][k] \in content
  /\ \A e \in Engines : leases[e] # None => ~leases[e].stale
  /\ \A s \in Shims :
       /\ pc[s] \notin {"err", "dead", "drop"}
       /\ pc[s] = "compile" => Len(compiled[s]) = idx[s] - 1

(* A step of s that takes nothing away. *)
LEMMA ServedStep ==
  ASSUME IInv, Served, NEW s \in Shims, images' = images, content' = content \/ content \subseteq content',
         \A e \in Engines : leases'[e] # None => ~leases'[e].stale,
         \A t \in Shims \ {s} : pc'[t] = pc[t] /\ compiled'[t] = compiled[t] /\ idx'[t] = idx[t],
         pc'[s] \notin {"err", "dead", "drop"},
         pc'[s] = "compile" => Len(compiled'[s]) = idx'[s] - 1
  PROVE  Served'
<1>1. content \subseteq content'
  BY Zenon
<1>2. ASSUME NEW t \in Shims
      PROVE  /\ pc'[t] \notin {"err", "dead", "drop"}
             /\ pc'[t] = "compile" => Len(compiled'[t]) = idx'[t] - 1
  <2>1. CASE t = s
    BY <2>1, Zenon
  <2>2. CASE t # s
    BY <2>2, Zenon DEF Served
  <2> QED BY <2>1, <2>2, Zenon
<1> QED BY <1>1, <1>2, Zenon DEF Served

LEMMA ServedGoto ==
  ASSUME IInv, Served, NEW s \in Shims, NEW label, label \notin {"err", "dead", "drop", "compile"},
         Goto(s, label), images' = images, content \subseteq content',
         \A e \in Engines : leases'[e] # None => ~leases'[e].stale,
         \A t \in Shims \ {s} : compiled'[t] = compiled[t] /\ idx'[t] = idx[t]
  PROVE  Served'
<1>1. pc'[s] = label /\ \A t \in Shims \ {s} : pc'[t] = pc[t]
  BY Zenon DEF Goto, IInv, TypeOK
<1> QED BY <1>1, ServedStep, Zenon

LEMMA ServedReturn ==
  ASSUME IInv, Served, NEW s \in Shims, NEW result, Return(s, result)
  PROVE  Served'
<1>1. \A t \in Shims \ {s} : compiled'[t] = compiled[t] /\ idx'[t] = idx[t]
  BY Zenon DEF Return, Forget, IInv, TypeOK
<1>2. \A e \in Engines : leases'[e] # None => ~leases'[e].stale
  BY Zenon DEF Return, Served
<1>3. Goto(s, "ok") /\ images' = images /\ content \subseteq content'
  BY Zenon DEF Return, Forget
<1> QED BY <1>1, <1>2, <1>3, ServedGoto, Zenon

(* What a load needs is there. *)
LEMMA LayerIsThere ==
  ASSUME IInv, Served, NEW s \in Shims,
         pc[s] \in (Reading \ {"manifest"}) \cup {"lease"} \cup Guarded
  PROVE  Layer(s) \in content /\ img[s] \in content
<1>1. /\ img[s] \in Images /\ idx[s] \in 1 .. Len(configs(img[s]))
  <2>1. CASE pc[s] \in Reading \ {"manifest"}
    <3>1. Local(s) /\ pc[s] \notin Ended
      BY <2>1, Zenon DEF IInv, Ended, Reading
    <3>2. /\ img[s] \in Images /\ idx[s] = Len(layers[s]) + 1
          /\ Len(layers[s]) < Len(configs(img[s])) /\ layers[s] \in Seq(Codes)
      BY <2>1, <3>1, Zenon DEF Local, LocalInv, Right
    <3> QED BY <3>2, ConfigType, LenProperties
  <2>2. CASE pc[s] \in {"lease"} \cup Guarded
    <3>1. Local(s) /\ pc[s] \notin Ended /\ pc[s] \in Saving /\ pc[s] # "next"
      BY <2>2, Zenon DEF IInv, Ended, Saving, Guarded
    <3>2. /\ img[s] \in Images /\ idx[s] \in 1 .. Len(layers[s]) + 1
          /\ idx[s] <= Len(layers[s]) /\ Len(layers[s]) = Len(configs(img[s]))
      BY <3>1, Zenon DEF Local, LocalInv
    <3> QED BY <3>2, ConfigType
  <2> QED BY <2>1, <2>2, Zenon
<1>2. \E k \in 1 .. Len(LayersOf[img[s]]) : Layer(s) = LayersOf[img[s]][k]
  BY <1>1, ConfigsAssumption, Zenon DEF Layer
<1> QED BY <1>1, <1>2, Zenon DEF Served

LEMMA ServedPush ==
  ASSUME IInv, Served, NEW s \in Shims, pc[s] \in {"cached", "original"}, NEW code, Push(s, code)
  PROVE  Served'
<1>1. ASSUME NEW result, Return(s, result) PROVE Served'
  BY <1>1, ServedReturn, Zenon
<1>2. ASSUME NEW last \in BOOLEAN, NEW other \in {"layer_info", "original"},
             idx' = [idx EXCEPT ![s] = IF last THEN 1 ELSE @ + 1],
             Goto(s, IF last THEN "compile" ELSE other),
             UNCHANGED <<store, img, needs, compiled, info, out>>
      PROVE  Served'
  <2>1. compiled[s] = <<>> /\ Len(<<>>) = 0
    <3>1. Local(s)
      BY Zenon DEF IInv
    <3> QED BY <3>1, Empty, Zenon DEF Local, LocalInv, Reading
  <2>2. /\ \A t \in Shims \ {s} : idx'[t] = idx[t] /\ pc'[t] = pc[t]
        /\ pc'[s] = IF last THEN "compile" ELSE other
        /\ last => idx'[s] = 1
    BY <1>2 DEF Goto, IInv, TypeOK
  <2>3. pc'[s] = "compile" => Len(compiled'[s]) = idx'[s] - 1
    BY <1>2, <2>1, <2>2
  <2>4. pc'[s] \notin {"err", "dead", "drop"}
    BY <1>2, <2>2
  <2>5. /\ images' = images /\ content' = content /\ compiled' = compiled
        /\ \A e \in Engines : leases'[e] # None => ~leases'[e].stale
    BY <1>2, Zenon DEF store, Served
  <2> QED BY <2>2, <2>3, <2>4, <2>5, ServedStep, Zenon
<1>3. ASSUME NEW read, NEW size, Push(s, code),
             read = Append(layers[s], code), size = Len(configs(img[s])) 
      PROVE  Served'
  <2>1. CASE Len(read) = size
    BY <1>1, <1>2, <1>3, <2>1, Zenon DEF Push
  <2>2. CASE Len(read) # size
    BY <1>1, <1>2, <1>3, <2>2, Zenon DEF Push
  <2> QED BY <2>1, <2>2, Zenon
<1> QED BY <1>3, Zenon

LEMMA ServedReading ==
  ASSUME IInv, Served, NEW s \in Shims,
         \/ read_manifest(s) \/ image_info(s) \/ layer_info(s) \/ read_cached(s)
         \/ read_original_layer(s)
  PROVE  Served'
<1>1. ASSUME NEW result, Return(s, result) PROVE Served'
  BY <1>1, ServedReturn, Zenon
<1>2. ASSUME NEW label \in {"image_info", "original", "layer_info", "cached"}, Goto(s, label),
             UNCHANGED <<images, content, leases, compiled, idx>>
      PROVE  Served'
  <2>1. \A e \in Engines : leases'[e] # None => ~leases'[e].stale
    BY <1>2, Zenon DEF Served
  <2> QED BY <1>2, <2>1, ServedGoto, Zenon
<1>3. ASSUME NotCached(s) PROVE Served'
  BY <1>2, <1>3, Zenon DEF NotCached, store
<1>4. CASE read_manifest(s)
  <2>1. img[s] \in images \cap content
    <3>1. Local(s) /\ pc[s] = "manifest"
      BY <1>4, Zenon DEF IInv, read_manifest
    <3>2. img[s] \in Images
      BY <3>1, Zenon DEF Local, LocalInv, Ended
    <3> QED BY <3>2, Zenon DEF Served
  <2>2. ASSUME NEW label \in {"image_info", "original"}, Goto(s, label), UNCHANGED <<store, local>>
        PROVE  Served'
    BY <1>2, <2>2, Zenon DEF store, local
  <2> QED BY <1>1, <1>4, <2>1, <2>2, Zenon DEF read_manifest
<1>5. CASE image_info(s)
  <2>1. img[s] \in content
    BY <1>5, LayerIsThere, Zenon DEF image_info, Reading
  <2> QED BY <1>2, <1>5, <2>1, Zenon DEF image_info, store
<1>6. CASE layer_info(s)
  BY <1>2, <1>3, <1>6, Zenon DEF layer_info, store
<1>7. CASE read_cached(s)
  BY <1>3, <1>7, ServedPush, Zenon DEF read_cached
<1>8. CASE read_original_layer(s)
  <2>1. Layer(s) \in content /\ pc[s] = "original"
    BY <1>8, LayerIsThere, Zenon DEF read_original_layer, Reading
  <2> QED BY <1>8, <2>1, ServedPush, Zenon DEF read_original_layer
<1> QED BY <1>4, <1>5, <1>6, <1>7, <1>8, Zenon

(* Every layer is answered for, or the whole answer is given up. *)
LEMMA ServedCompile ==
  ASSUME Undisturbed, IInv, Served, NEW s \in Shims, compile(s)
  PROVE  Served'
<1>0. Local(s) /\ pc[s] = "compile"
  BY Zenon DEF IInv, compile
<1>1. /\ img[s] \in Images /\ Right(img[s], EngineOf[s], layers[s])
      /\ Len(layers[s]) = Len(configs(img[s])) /\ Len(layers[s]) \in Nat
      /\ idx[s] \in 1 .. Len(layers[s]) + 1 /\ Len(compiled[s]) = idx[s] - 1
  <2>1. /\ img[s] \in Images /\ Right(img[s], EngineOf[s], layers[s])
        /\ Len(layers[s]) = Len(configs(img[s]))
        /\ idx[s] \in 1 .. Len(layers[s]) + 1
    BY <1>0, Zenon DEF Local, LocalInv, Ended
  <2> QED BY <1>0, <2>1, ConfigType, Zenon DEF Served
<1>2. \A e \in Engines : leases[e] # None => ~leases[e].stale
  BY Zenon DEF Served
<1>3. CASE idx[s] <= Len(layers[s]) /\ compile_layer(s)
  <2> DEFINE code == layers[s][idx[s]]
  <2>1. Kind(code) \in {"wasm", "compiled", "broken"}
    <3>1. code \in {configs(img[s])[idx[s]], <<configs(img[s])[idx[s]], EngineOf[s]>>}
      BY <1>1, <1>3 DEF Right
    <3>2. code \in Layers => Binary[code] \in {"wasm", "compiled", "broken"}
      BY LayersAssumption, Zenon DEF Undisturbed
    <3> QED BY <3>2, Zenon DEF Kind
  <2>2. CASE Kind(code) = "broken"
    BY <1>3, <2>2, ServedReturn, Zenon DEF compile_layer
  <2>3. CASE Kind(code) # "broken"
    <3>1. PICK answer \in Codes \cup {None} : compiled' = [compiled EXCEPT ![s] = Append(@, answer)]
      <4>1. CASE Kind(code) = "wasm"
        <5>1. code \in Layers
          BY <4>1 DEF Kind
        <5>2. <<code, EngineOf[s]>> \in Codes
          BY <5>1, EnginesAssumption DEF Codes
        <5> QED BY <1>3, <2>3, <4>1, <5>2 DEF compile_layer
      <4>2. CASE Kind(code) = "compiled"
        BY <1>3, <2>3, <4>2 DEF compile_layer
      <4> QED BY <2>1, <2>3, <4>1, <4>2, Zenon
    <3>2. /\ idx' = [idx EXCEPT ![s] = @ + 1]
          /\ UNCHANGED <<store, pc, img, needs, layers, info, out>>
      BY <1>3, <2>3, Zenon DEF compile_layer
    <3>3. compiled'[s] = Append(compiled[s], answer) /\ idx'[s] = idx[s] + 1
      BY <3>1, <3>2, Zenon DEF IInv, TypeOK
    <3>4. \A t \in Shims \ {s} : compiled'[t] = compiled[t] /\ idx'[t] = idx[t] /\ pc'[t] = pc[t]
      BY <3>1, <3>2, Zenon DEF IInv, TypeOK
    <3>5. Len(compiled'[s]) = Len(compiled[s]) + 1
      <4>1. compiled[s] \in Seq(Codes \cup {None})
        BY Zenon DEF IInv, TypeOK
      <4>2. Len(Append(compiled[s], answer)) = Len(compiled[s]) + 1
        BY <4>1, AppendProperties
      <4> QED BY <3>3, <4>2, Zenon
    <3>6. Len(compiled'[s]) = idx'[s] - 1
      BY <1>1, <3>3, <3>5
    <3>7. pc'[s] = pc[s] /\ images' = images /\ content' = content /\ leases' = leases
      BY <3>2, Zenon DEF store
    <3> QED BY <1>0, <1>2, <3>4, <3>6, <3>7, ServedStep, Zenon
  <2> QED BY <2>2, <2>3, Zenon
<1>4. CASE StartSaving(s)
  <2>1. \A t \in Shims \ {s} : compiled'[t] = compiled[t] /\ idx'[t] = idx[t]
    BY <1>4, Zenon DEF StartSaving, IInv, TypeOK
  <2>2. Goto(s, "next") /\ images' = images /\ content \subseteq content' /\ leases' = leases
    BY <1>4, Zenon DEF StartSaving, store
  <2> QED BY <1>2, <2>1, <2>2, ServedGoto, Zenon
<1>5. Answered(s) => Len(compiled[s]) = Len(layers[s])
  BY <1>1 DEF Answered
<1> QED BY <1>3, <1>4, <1>5, Zenon DEF compile

(* A shim that asks for a lease is the only one that could have it. *)
LEMMA LeaseIsFree ==
  ASSUME Undisturbed, IInv, Served, NEW s \in Shims, pc[s] = "lease"
  PROVE  leases[Label(s)] = None
<1> SUFFICES ASSUME leases[Label(s)] # None PROVE FALSE
  BY Zenon
<1>1. Label(s) \in Engines
  BY EnginesAssumption, Zenon DEF Label, precompile_label
<1>2. leases[Label(s)].owner \in Shims /\ ~leases[Label(s)].stale
  BY <1>1, Zenon DEF IInv, TypeOK, Served
<1>3. pc[leases[Label(s)].owner] \in Guarded /\ Label(leases[Label(s)].owner) = Label(s)
  BY <1>1, <1>2, Zenon DEF IInv, LeaseReleased
<1>4. leases[Label(s)].owner = s
  BY <1>2, <1>3, Zenon DEF Undisturbed, Label, precompile_label
<1> QED BY <1>3, <1>4, Zenon DEF Guarded

LEMMA ServedSaving ==
  ASSUME Undisturbed, IInv, Served, NEW s \in Shims,
         \/ next_layer(s) \/ lease(s) \/ write(s) \/ layer_get(s) \/ layer_update(s)
         \/ image_get(s) \/ image_update(s) \/ release(s)
  PROVE  Served'
<1>0. Label(s) \in Engines /\ \A e \in Engines : leases[e] # None => ~leases[e].stale
  BY EnginesAssumption, Zenon DEF Served, Label, precompile_label
<1>1. ASSUME NEW label, label \notin {"err", "dead", "drop", "compile"}, Goto(s, label),
             images' = images, content \subseteq content', UNCHANGED <<compiled, idx>>,
             \A e \in Engines : leases'[e] # None => ~leases'[e].stale
      PROVE  Served'
  BY <1>1, ServedGoto, Zenon
<1>2. CASE next_layer(s)
  <2>1. ASSUME pc[s] = "next", UNCHANGED pc, idx' = [idx EXCEPT ![s] = @ + 1],
               UNCHANGED <<store, img, needs, layers, compiled, info>>
        PROVE  Served'
    <3>1. /\ pc'[s] = "next"
          /\ \A t \in Shims \ {s} : compiled'[t] = compiled[t] /\ idx'[t] = idx[t] /\ pc'[t] = pc[t]
      BY <2>1, Zenon DEF IInv, TypeOK
    <3>2. images' = images /\ content' = content /\ leases' = leases
      BY <2>1, Zenon DEF store
    <3> QED BY <1>0, <3>1, <3>2, ServedStep, Zenon
  <2>2. ASSUME Goto(s, "lease"), UNCHANGED <<out, idx>>,
               UNCHANGED <<store, img, needs, layers, compiled, info>>
        PROVE  Served'
    BY <1>0, <1>1, <2>2, Zenon DEF store
  <2> QED BY <1>2, <2>1, <2>2, ServedReturn, Zenon DEF next_layer
<1>3. CASE lease(s)
  <2>1. /\ leases' = [leases EXCEPT ![Label(s)] = [owner |-> s, holds |-> {}, stale |-> FALSE]]
        /\ Goto(s, "write") /\ UNCHANGED <<images, content, cache, ref, local>>
    BY <1>3, LeaseIsFree, Zenon DEF lease
  <2>2. \A e \in Engines : leases'[e] # None => ~leases'[e].stale
    BY <1>0, <2>1 DEF IInv, TypeOK
  <2> QED BY <1>1, <2>1, <2>2, Zenon DEF local
<1>4. CASE write(s)
  <2>1. /\ leases' = [leases EXCEPT ![Label(s)].holds = @ \cup {Code(s)}]
        /\ Goto(s, "layer_get") /\ UNCHANGED <<images, local>> /\ content \subseteq content'
    BY <1>4, Zenon DEF write
  <2>2. leases[Label(s)] # None
    BY <1>4, Zenon DEF IInv, Guard, write, Guarded
  <2>3. \A e \in Engines : leases'[e] # None => ~leases'[e].stale
    BY <1>0, <2>1, <2>2 DEF IInv, TypeOK
  <2> QED BY <1>1, <2>1, <2>3, Zenon DEF local
<1>5. CASE layer_get(s) \/ layer_update(s) \/ image_get(s) \/ image_update(s)
  <2>1. Layer(s) \in content /\ img[s] \in content
    BY <1>5, LayerIsThere, Zenon DEF layer_get, layer_update, image_get, image_update, Guarded
  <2>2. ASSUME NEW d, NEW label \in {"layer_update", "image_update"}, Get(s, d, label) PROVE Served'
    BY <1>0, <1>1, <2>2, Zenon DEF Get, store
  <2>3. ASSUME NEW d, NEW value, NEW label \in {"image_get", "release"}, Update(s, d, value, label)
        PROVE  Served'
    BY <1>0, <1>1, <2>3, Zenon DEF Update
  <2> QED BY <1>5, <2>1, <2>2, <2>3, Zenon
          DEF layer_get, layer_update, image_get, image_update, Gone
<1>6. CASE release(s)
  <2>1. /\ leases' = [leases EXCEPT ![Label(s)] = None] /\ Goto(s, "next")
        /\ idx' = [idx EXCEPT ![s] = @ + 1] /\ UNCHANGED <<images, content, compiled>>
    BY <1>6, Zenon DEF release, Delete, Undisturbed
  <2>2. \A e \in Engines : leases'[e] # None => ~leases'[e].stale
    BY <1>0, <2>1 DEF IInv, TypeOK
  <2>3. \A t \in Shims \ {s} : compiled'[t] = compiled[t] /\ idx'[t] = idx[t]
    BY <2>1, Zenon DEF IInv, TypeOK
  <2> QED BY <2>1, <2>2, <2>3, ServedGoto, Zenon
<1> QED BY <1>2, <1>3, <1>4, <1>5, <1>6, Zenon

LEMMA NextServed == Undisturbed /\ IInv /\ Served /\ [Next]_vars => Served'
<1> SUFFICES ASSUME Undisturbed, IInv, Served, [Next]_vars PROVE Served'
  OBVIOUS
<1>0. "rpc" \notin Faults /\ "crash" \notin Faults /\ "churn" \notin Faults
  BY Zenon DEF Undisturbed
<1>1. ASSUME NEW s \in Shims, step(s) PROVE Served'
  <2>1. ~drop(s)
    BY Zenon DEF drop, Served
  <2> QED BY <1>1, <2>1, ServedReading, ServedCompile, ServedSaving, Zenon DEF step
<1>2. ASSUME NEW s \in Shims, NEW i \in Images, load_modules(s, i) PROVE Served'
  <2>1. Goto(s, "manifest") /\ UNCHANGED <<images, content, leases, compiled>>
    BY <1>2, Zenon DEF load_modules, store
  <2>2. \A t \in Shims \ {s} : compiled'[t] = compiled[t] /\ idx'[t] = idx[t]
    BY <1>2, <2>1, Zenon DEF load_modules, IInv, TypeOK
  <2>3. \A e \in Engines : leases'[e] # None => ~leases'[e].stale
    BY <2>1, Zenon DEF Served
  <2> QED BY <2>1, <2>2, <2>3, ServedGoto, Zenon
<1>3. ASSUME NEW e \in Engines, expire(e) PROVE Served'
  BY <1>3, Zenon DEF expire, Served
<1>4. CASE collect
  <2>1. UNCHANGED <<images, leases, pc, compiled, idx>> /\ content' = content \cap Reachable
    BY <1>4, Zenon DEF collect, local
  <2>2. ASSUME NEW i \in Images
        PROVE  i \in Reachable /\ \A k \in 1 .. Len(LayersOf[i]) : LayersOf[i][k] \in Reachable
    BY DEF Served, Reachable, ImageContent
  <2> QED BY <2>1, <2>2, Zenon DEF Served
<1>5. CASE UNCHANGED vars
  BY <1>5, Zenon DEF vars, Served
<1> QED BY <1>0, <1>1, <1>2, <1>3, <1>4, <1>5, Zenon
        DEF Next, rpc_error, crash, remove_image, pull

(***************************************************************************)
(* "precompile --> storecache --> startcontainer" (oci-decision-flow.md):  *)
(* while nothing fails and no two shims of an engine load at once, no load *)
(* ends in an error (client.rs:460), however the shims of the other        *)
(* engines rewrite the labels and whatever the collector takes: a label    *)
(* whose content is gone leads to the original layer, which is there.      *)
(***************************************************************************)
THEOREM UndisturbedLoadsSucceed == Undisturbed => (Spec => []LoadSucceeds)
<1> SUFFICES ASSUME Undisturbed PROVE Spec => []LoadSucceeds
  OBVIOUS
<1>1. Init => Served
  <2>1. \A i \in Images : \A k \in 1 .. Len(LayersOf[i]) : LayersOf[i][k] \in Layers
    BY LayersAssumption, ElementOfSeq, Zenon
  <2> QED BY <2>1, Zenon DEF Init, Served
<1>2. IInv /\ Served /\ [Next]_vars => Served'
  BY NextServed, Zenon
<1>3. Served => LoadSucceeds
  BY Zenon DEF Served, LoadSucceeds
<1> QED BY <1>1, <1>2, <1>3, Invariance, PTL DEF Spec

-----------------------------------------------------------------------------
(***************************************************************************)
(* SaveContent, for any writers, bytes and chunk size.  None is no writer  *)
(* and no content.                                                         *)
(***************************************************************************)
CONSTANTS Writers, Bytes, Data, MaxChunk, MaxFaults
VARIABLES holder, ingest, blobs, w_pc, offset, excuse, faults

Save == INSTANCE SaveContent WITH pc <- w_pc

SaveAssumption ==
  /\ Data \in [Writers -> Seq(Bytes)] /\ MaxChunk \in Nat /\ MaxFaults \in Nat
  /\ None \notin Writers \cup Seq(Bytes)

(***************************************************************************)
(* Its inductive invariant: the writer at work has the lease, so that the  *)
(* ingest is its own; what was ingested is as much of its data as its      *)
(* offset says, unless it continues what was begun with other bytes.       *)
(***************************************************************************)
Active == {"stat", "chunk", "drop"}

Writing(w) ==
  /\ w_pc[w] \in Active => holder = w
  /\ w_pc[w] = "stat" => excuse[w] = {}
  /\ w_pc[w] = "chunk" =>
       /\ ingest # None
       /\ excuse[w] = {} => offset[w] <= Len(Data[w]) /\ ingest = SubSeq(Data[w], 1, offset[w])
  /\ w_pc[w] \in {"drop", "failed"} => excuse[w] # {}
  /\ w_pc[w] = "saved" => Data[w] \in blobs

SaveInv ==
  /\ Save!TypeOK
  /\ offset \in [Writers -> Nat] /\ ingest \in Seq(Bytes) \cup {None}
  /\ \A w \in Writers : Writing(w)

LEMMA DataType ==
  ASSUME SaveAssumption, NEW w \in Writers
  PROVE  Data[w] \in Seq(Bytes) /\ Len(Data[w]) \in Nat
<1>1. Data[w] \in Seq(Bytes)
  BY Zenon DEF SaveAssumption
<1> QED BY <1>1, LenProperties, Zenon

(* A part of the data is a sequence, and the next chunk extends it. *)
LEMMA ChunkOf ==
  ASSUME SaveAssumption, NEW w \in Writers, NEW m \in Nat, NEW n \in Nat,
         m <= n, n <= Len(Data[w])
  PROVE  /\ SubSeq(Data[w], m + 1, n) \in Seq(Bytes)
         /\ SubSeq(Data[w], 1, m) \in Seq(Bytes) /\ Len(SubSeq(Data[w], 1, m)) = m
         /\ SubSeq(Data[w], 1, m) \o SubSeq(Data[w], m + 1, n) = SubSeq(Data[w], 1, n)
<1>1. Data[w] \in Seq(Bytes) /\ Len(Data[w]) \in Nat
  BY DataType, Zenon
<1>2. \A k \in 1 .. Len(Data[w]) : Data[w][k] \in Bytes
  BY <1>1, ElementOfSeq, Zenon
<1>3. (\A k \in m + 1 .. n : Data[w][k] \in Bytes) /\ (\A k \in 1 .. m : Data[w][k] \in Bytes)
  BY <1>1, <1>2
<1>4. SubSeq(Data[w], m + 1, n) \in Seq(Bytes)
  BY <1>3, SubSeqProperties
<1>5. SubSeq(Data[w], 1, m) \in Seq(Bytes) /\ Len(SubSeq(Data[w], 1, m)) = m
  BY <1>3, SubSeqProperties
<1>6. 1 \in 1 .. Len(Data[w]) + 1 /\ m \in 1 - 1 .. Len(Data[w]) /\ n \in m .. Len(Data[w])
  BY <1>1
<1>7. SubSeq(Data[w], 1, m) \o SubSeq(Data[w], m + 1, n) = SubSeq(Data[w], 1, n)
  BY <1>1, <1>6, ConcatAdjacentSubSeq
<1> QED BY <1>4, <1>5, <1>7, Zenon

LEMMA ChunkEnd ==
  ASSUME SaveAssumption, NEW w \in Writers, offset[w] \in Nat, offset[w] < Len(Data[w])
  PROVE  /\ Save!chunk_end(w) \in Nat /\ offset[w] <= Save!chunk_end(w)
         /\ Save!chunk_end(w) <= Len(Data[w])
  BY DataType DEF SaveAssumption, Save!chunk_end

(* A step of w with the lease in its own hands, or with what belongs to    *)
(* the holder left alone, does not disturb the other writers.              *)
LEMMA WriterStep ==
  ASSUME SaveAssumption, SaveInv, NEW w \in Writers,
         holder' \in Writers \cup {None}, ingest' \in Seq(Bytes) \cup {None},
         blobs \subseteq blobs', blobs' \subseteq {Data[v] : v \in Writers},
         w_pc' \in [Writers -> {"idle", "stat", "chunk", "drop", "saved", "failed"}],
         offset' \in [Writers -> Nat],
         excuse' \in [Writers -> SUBSET {"lease", "lost", "foreign"}],
         faults' \in 0 .. MaxFaults,
         offset'[w] \in 0 .. Len(Data[w]) \/ "foreign" \in excuse'[w],
         \A v \in Writers \ {w} :
           w_pc'[v] = w_pc[v] /\ offset'[v] = offset[v] /\ excuse'[v] = excuse[v],
         UNCHANGED <<holder, ingest>> \/ holder \in {w, None},
         Writing(w)'
  PROVE  SaveInv'
<1>1. ASSUME NEW v \in Writers \ {w} PROVE Writing(v)'
  <2>1. Writing(v) /\ w_pc'[v] = w_pc[v] /\ offset'[v] = offset[v] /\ excuse'[v] = excuse[v]
    BY Zenon DEF SaveInv
  <2>2. CASE w_pc[v] \in Active
    <3>1. UNCHANGED <<holder, ingest>>
      BY <2>1, <2>2, Zenon DEF Writing, SaveAssumption
    <3> QED BY <2>1, <3>1, Zenon DEF Writing
  <2>3. CASE w_pc[v] \notin Active
    BY <2>1, <2>3, Zenon DEF Writing, Active
  <2> QED BY <2>2, <2>3, Zenon
<1>2. Save!TypeOK'
  <2>1. ingest' = None \/ Len(ingest') \in Nat
    BY LenProperties, Zenon
  <2>2. \A v \in Writers : offset'[v] \in 0 .. Len(Data[v]) \/ "foreign" \in excuse'[v]
    BY Zenon DEF SaveInv, Save!TypeOK
  <2> QED BY <2>1, <2>2, Zenon DEF Save!TypeOK
<1> QED BY <1>1, <1>2, Zenon DEF SaveInv

LEMMA LeaseOrFail ==
  ASSUME SaveAssumption, SaveInv, NEW w \in Writers, Save!save_content(w)
  PROVE  SaveInv'
<1> USE DEF Save!save_content, Save!Goto
<1>1. /\ holder' \in Writers \cup {None} /\ UNCHANGED <<ingest, blobs, faults>>
      /\ w_pc' \in [Writers -> {"idle", "stat", "chunk", "drop", "saved", "failed"}]
      /\ excuse' \in [Writers -> SUBSET {"lease", "lost", "foreign"}]
      /\ \A v \in Writers \ {w} : w_pc'[v] = w_pc[v] /\ excuse'[v] = excuse[v]
      /\ \/ w_pc'[w] = "stat" /\ holder' = w /\ excuse'[w] = {} /\ holder = None
         \/ w_pc'[w] = "failed" /\ excuse'[w] # {} /\ holder' = holder
  BY DEF SaveInv, Save!TypeOK
<1>2. /\ offset' \in [Writers -> Nat] /\ offset'[w] = 0
      /\ \A v \in Writers \ {w} : offset'[v] = offset[v]
  BY DEF SaveInv
<1>3. offset'[w] \in 0 .. Len(Data[w])
  BY <1>2, DataType
<1>4. Writing(w)'
  BY <1>1, Zenon DEF Writing, Active
<1>5. /\ ingest' \in Seq(Bytes) \cup {None} /\ faults' \in 0 .. MaxFaults
      /\ blobs \subseteq blobs' /\ blobs' \subseteq {Data[v] : v \in Writers}
  BY <1>1, Zenon DEF SaveInv, Save!TypeOK
<1>6. UNCHANGED <<holder, ingest>> \/ holder \in {w, None}
  BY <1>1, Zenon
<1> QED BY <1>1, <1>2, <1>3, <1>4, <1>5, <1>6, WriterStep, Zenon

LEMMA StatStep ==
  ASSUME SaveAssumption, SaveInv, NEW w \in Writers, Save!stat(w)
  PROVE  SaveInv'
<1> USE DEF Save!stat, Save!Goto
<1>0. holder = w /\ excuse[w] = {} /\ w_pc[w] = "stat" /\ UNCHANGED <<blobs, faults>>
  BY Zenon DEF SaveInv, Writing, Active
<1>1. CASE /\ Data[w] \in blobs /\ holder' = None /\ Save!Goto(w, "saved")
           /\ UNCHANGED <<ingest, offset, excuse>>
  <2>1. /\ w_pc' \in [Writers -> {"idle", "stat", "chunk", "drop", "saved", "failed"}]
        /\ w_pc'[w] = "saved" /\ \A v \in Writers \ {w} : w_pc'[v] = w_pc[v]
    BY <1>1, Zenon DEF SaveInv, Save!TypeOK
  <2>2. Writing(w)'
    BY <1>0, <1>1, <2>1, Zenon DEF Writing, Active
  <2> QED BY <1>0, <1>1, <2>1, <2>2, WriterStep, Zenon DEF SaveInv, Save!TypeOK
<1>2. CASE /\ Data[w] \notin blobs
           /\ ingest' = IF ingest = None THEN <<>> ELSE ingest
           /\ offset' = [offset EXCEPT ![w] = Len(ingest')]
           /\ Save!Goto(w, "chunk")
           /\ IF Save!Prefix(ingest', Data[w]) THEN UNCHANGED excuse ELSE Save!Excuse(w, "foreign")
           /\ UNCHANGED holder
  <2>1. /\ w_pc' \in [Writers -> {"idle", "stat", "chunk", "drop", "saved", "failed"}]
        /\ w_pc'[w] = "chunk" /\ \A v \in Writers \ {w} : w_pc'[v] = w_pc[v]
    BY <1>2, Zenon DEF SaveInv, Save!TypeOK
  <2>2. ingest' \in Seq(Bytes) /\ Len(ingest') \in Nat /\ ingest' # None
    <3>1. ingest' \in Seq(Bytes)
      BY <1>2, EmptySeq, Zenon DEF SaveInv
    <3> QED BY <3>1, LenProperties, Zenon DEF SaveAssumption
  <2>3. /\ offset' \in [Writers -> Nat] /\ offset'[w] = Len(ingest')
        /\ \A v \in Writers \ {w} : offset'[v] = offset[v]
    BY <1>2, <2>2, Zenon DEF SaveInv
  <2>4. /\ excuse' \in [Writers -> SUBSET {"lease", "lost", "foreign"}]
        /\ \A v \in Writers \ {w} : excuse'[v] = excuse[v]
        /\ ~Save!Prefix(ingest', Data[w]) => "foreign" \in excuse'[w]
    BY <1>2 DEF SaveInv, Save!TypeOK, Save!Excuse
  <2>5. Save!Prefix(ingest', Data[w]) =>
          offset'[w] \in 0 .. Len(Data[w]) /\ ingest' = SubSeq(Data[w], 1, offset'[w])
    BY <2>2, <2>3, DataType DEF Save!Prefix
  <2>6. offset'[w] \in 0 .. Len(Data[w]) => offset'[w] <= Len(Data[w])
    BY <2>2, DataType
  <2>7. Writing(w)'
    BY <1>0, <1>2, <2>1, <2>2, <2>4, <2>5, <2>6, Zenon DEF Writing, Active
  <2>8. /\ holder' \in Writers \cup {None} /\ faults' \in 0 .. MaxFaults
        /\ blobs \subseteq blobs' /\ blobs' \subseteq {Data[v] : v \in Writers}
    BY <1>0, <1>2, Zenon DEF SaveInv, Save!TypeOK
  <2>9. offset'[w] \in 0 .. Len(Data[w]) \/ "foreign" \in excuse'[w]
    BY <2>4, <2>5, Zenon
  <2> QED BY <1>0, <2>1, <2>2, <2>3, <2>4, <2>7, <2>8, <2>9, WriterStep, Zenon
<1> QED BY <1>1, <1>2, Zenon

(* A step from "chunk" to an error that has a cause. *)
LEMMA ErrStep ==
  ASSUME SaveAssumption, SaveInv, NEW w \in Writers, w_pc[w] = "chunk",
         Save!Goto(w, "drop"), UNCHANGED <<holder, offset>>,
         ingest' \in Seq(Bytes) \cup {None},
         blobs \subseteq blobs', blobs' \subseteq {Data[v] : v \in Writers},
         \/ UNCHANGED <<excuse, faults>> /\ excuse[w] # {}
         \/ Save!Lose /\ Save!Excuse(w, "lost")
  PROVE  SaveInv'
<1>1. /\ w_pc' \in [Writers -> {"idle", "stat", "chunk", "drop", "saved", "failed"}]
      /\ w_pc'[w] = "drop" /\ \A v \in Writers \ {w} : w_pc'[v] = w_pc[v]
  BY Zenon DEF SaveInv, Save!TypeOK, Save!Goto
<1>2. /\ excuse' \in [Writers -> SUBSET {"lease", "lost", "foreign"}]
      /\ \A v \in Writers \ {w} : excuse'[v] = excuse[v]
      /\ excuse[w] \subseteq excuse'[w] /\ excuse'[w] # {}
  BY DEF SaveInv, Save!TypeOK, Save!Excuse
<1>3. faults' \in 0 .. MaxFaults
  BY DEF SaveInv, Save!TypeOK, Save!Lose, SaveAssumption
<1>4. holder = w /\ (offset'[w] \in 0 .. Len(Data[w]) \/ "foreign" \in excuse'[w])
  BY <1>2, Zenon DEF SaveInv, Save!TypeOK, Writing, Active
<1>5. Writing(w)'
  BY <1>1, <1>2, <1>4, Zenon DEF Writing, Active
<1> QED BY <1>1, <1>2, <1>3, <1>4, <1>5, WriterStep, Zenon DEF SaveInv, Save!TypeOK

LEMMA ChunkStep ==
  ASSUME SaveAssumption, SaveInv, NEW w \in Writers, Save!send_chunk(w)
  PROVE  SaveInv'
<1>0. /\ w_pc[w] = "chunk" /\ offset[w] \in Nat /\ offset[w] < Len(Data[w])
      /\ holder = w /\ ingest \in Seq(Bytes) /\ ingest # None
      /\ excuse[w] = {} => ingest = SubSeq(Data[w], 1, offset[w])
  BY Zenon DEF Save!send_chunk, SaveInv, Writing, Active
<1>1. /\ Save!chunk_end(w) \in Nat /\ offset[w] <= Save!chunk_end(w)
      /\ Save!chunk_end(w) <= Len(Data[w])
  BY <1>0, ChunkEnd
<1>2. /\ Save!chunk(w) \in Seq(Bytes)
      /\ Len(SubSeq(Data[w], 1, offset[w])) = offset[w]
      /\ SubSeq(Data[w], 1, offset[w]) \o Save!chunk(w) = SubSeq(Data[w], 1, Save!chunk_end(w))
  BY <1>0, <1>1, ChunkOf DEF Save!chunk
<1>3. Save!Ingested(offset[w], Save!chunk(w)) \in Seq(Bytes)
  BY <1>0, <1>2, ConcatProperties, Zenon DEF Save!Ingested
<1>4. excuse[w] = {} =>
        /\ Save!Accepts(offset[w])
        /\ Save!Ingested(offset[w], Save!chunk(w)) = SubSeq(Data[w], 1, Save!chunk_end(w))
  <2>1. offset[w] = 0 => Save!chunk(w) = SubSeq(Data[w], 1, Save!chunk_end(w))
    BY DEF Save!chunk
  <2> QED BY <1>0, <1>2, <2>1, Zenon DEF Save!Accepts, Save!Ingested
<1>5. CASE /\ ingest' = Save!Ingested(offset[w], Save!chunk(w))
           /\ offset' = [offset EXCEPT ![w] = Save!chunk_end(w)]
           /\ UNCHANGED <<holder, blobs, w_pc, excuse, faults>>
  <2>1. /\ offset' \in [Writers -> Nat] /\ offset'[w] = Save!chunk_end(w)
        /\ \A v \in Writers \ {w} : offset'[v] = offset[v]
    BY <1>1, <1>5, Zenon DEF SaveInv
  <2>2. offset'[w] \in 0 .. Len(Data[w]) /\ offset'[w] <= Len(Data[w])
    BY <1>1, <2>1, DataType
  <2>3. ingest' \in Seq(Bytes) /\ ingest' # None
    BY <1>3, <1>5, Zenon DEF SaveAssumption
  <2>4. Writing(w)'
    BY <1>0, <1>4, <1>5, <2>1, <2>2, <2>3, Zenon DEF Writing, Active
  <2> QED BY <1>0, <1>5, <2>1, <2>2, <2>3, <2>4, WriterStep, Zenon DEF SaveInv, Save!TypeOK
<1>6. CASE ~Save!Accepts(offset[w]) /\ Save!Err(w) /\ UNCHANGED <<ingest, excuse, faults>>
  BY <1>0, <1>4, <1>6, ErrStep, Zenon DEF Save!Err, SaveInv, Save!TypeOK
<1>7. CASE /\ Save!Lose
           /\ ingest' = Save!Ingested(offset[w], Save!chunk(w)) \/ UNCHANGED ingest
           /\ Save!Err(w) /\ Save!Excuse(w, "lost")
  BY <1>0, <1>3, <1>7, ErrStep, Zenon DEF Save!Err, SaveInv, Save!TypeOK
<1> QED BY <1>5, <1>6, <1>7, Zenon DEF Save!send_chunk

LEMMA CommitStep ==
  ASSUME SaveAssumption, SaveInv, NEW w \in Writers, Save!send_commit(w)
  PROVE  SaveInv'
<1>0. /\ w_pc[w] = "chunk" /\ offset[w] \in Nat /\ offset[w] >= Len(Data[w])
      /\ holder = w
      /\ excuse[w] = {} => offset[w] <= Len(Data[w]) /\ ingest = SubSeq(Data[w], 1, offset[w])
  BY Zenon DEF Save!send_commit, SaveInv, Writing, Active
<1>1. Data[w] \in Seq(Bytes) /\ Len(Data[w]) \in Nat
  BY DataType, Zenon
<1>2. excuse[w] = {} => Save!Complete(w)
  <2> SUFFICES ASSUME excuse[w] = {} PROVE Save!Complete(w)
    OBVIOUS
  <2>1. offset[w] = Len(Data[w])
    BY <1>0, <1>1
  <2>2. ingest = Data[w]
    BY <1>0, <1>1, <2>1, SubSeqFull
  <2>3. Len(Data[w]) = 0 => Data[w] = <<>>
    BY <1>1, EmptySeq
  <2>4. Data[w] \o <<>> = Data[w]
    BY <1>1, ConcatEmptySeq
  <2> QED BY <2>2, <2>3, <2>4, Zenon DEF Save!Complete, Save!Accepts, Save!Ingested
<1>3. ASSUME Save!Commit(w)
      PROVE  /\ blobs \subseteq blobs' /\ blobs' \subseteq {Data[v] : v \in Writers}
             /\ Data[w] \in blobs' /\ ingest' = None
  BY <1>3, Zenon DEF Save!Commit, SaveInv, Save!TypeOK
<1>4. CASE /\ Save!Commit(w) /\ holder' = None /\ Save!Goto(w, "saved")
           /\ UNCHANGED <<offset, excuse, faults>>
  <2>1. /\ w_pc' \in [Writers -> {"idle", "stat", "chunk", "drop", "saved", "failed"}]
        /\ w_pc'[w] = "saved" /\ \A v \in Writers \ {w} : w_pc'[v] = w_pc[v]
    BY <1>4, Zenon DEF SaveInv, Save!TypeOK, Save!Goto
  <2>2. Writing(w)'
    BY <1>3, <1>4, <2>1, Zenon DEF Writing, Active
  <2> QED BY <1>0, <1>3, <1>4, <2>1, <2>2, WriterStep, Zenon DEF SaveInv, Save!TypeOK
<1>5. CASE ~Save!Complete(w) /\ Save!Err(w) /\ UNCHANGED <<ingest, excuse, faults>>
  BY <1>0, <1>2, <1>5, ErrStep, Zenon DEF Save!Err, SaveInv, Save!TypeOK
<1>6. CASE /\ Save!Lose
           /\ Save!Commit(w) \/ UNCHANGED <<blobs, ingest>>
           /\ Save!Goto(w, "drop")
           /\ Save!Excuse(w, "lost")
           /\ UNCHANGED <<holder, offset>>
  BY <1>0, <1>3, <1>6, ErrStep, Zenon DEF SaveInv, Save!TypeOK
<1> QED BY <1>4, <1>5, <1>6, Zenon DEF Save!send_commit

(* The guard is dropped, or the shim is killed. *)
LEMMA EndStep ==
  ASSUME SaveAssumption, SaveInv, NEW w \in Writers, Save!drop(w) \/ Save!crash(w)
  PROVE  SaveInv'
<1>1. /\ \/ w_pc[w] = "drop" /\ w_pc'[w] = "failed" /\ holder' = None
         \/ w_pc'[w] = "idle" /\ holder' = holder
      /\ w_pc[w] \in Active
      /\ w_pc' \in [Writers -> {"idle", "stat", "chunk", "drop", "saved", "failed"}]
      /\ \A v \in Writers \ {w} : w_pc'[v] = w_pc[v]
      /\ UNCHANGED <<ingest, blobs, offset, excuse>>
  BY Zenon DEF Save!drop, Save!crash, Save!Goto, SaveInv, Save!TypeOK, Active, Save!containerd
<1>2. faults' \in 0 .. MaxFaults
  BY DEF Save!drop, Save!crash, Save!Lose, SaveAssumption, SaveInv, Save!TypeOK
<1>3. holder = w
  BY <1>1, Zenon DEF SaveInv, Writing
<1>4. Writing(w)'
  BY <1>1, Zenon DEF SaveInv, Writing, Active
<1> QED BY <1>1, <1>2, <1>3, <1>4, WriterStep, Zenon DEF SaveInv, Save!TypeOK

(* The collector leaves a writer at work alone: it holds the lease. *)
LEMMA CollectorStep ==
  ASSUME SaveAssumption, SaveInv, Save!expire \/ Save!collect
  PROVE  SaveInv'
<1>1. /\ UNCHANGED <<blobs, w_pc, offset, excuse, faults>>
      /\ holder' \in {holder, None} /\ ingest' \in {ingest, None}
      /\ \A w \in Writers : w_pc[w] \in Active => FALSE
  BY Zenon DEF Save!expire, Save!collect, SaveInv, Writing, Active, SaveAssumption
<1>2. \A w \in Writers : Writing(w)'
  BY <1>1, Zenon DEF SaveInv, Writing, Active
<1>3. Save!TypeOK'
  BY <1>1, Zenon DEF SaveInv, Save!TypeOK
<1> QED BY <1>1, <1>2, <1>3, Zenon DEF SaveInv

LEMMA SaveInvariance == SaveAssumption => (Save!Spec => []SaveInv)
<1> SUFFICES ASSUME SaveAssumption PROVE Save!Spec => []SaveInv
  OBVIOUS
<1>1. Save!Init => SaveInv
  <2> SUFFICES ASSUME Save!Init PROVE SaveInv
    OBVIOUS
  <2> USE DEF Save!Init
  <2>1. \A w \in Writers : offset[w] \in 0 .. Len(Data[w])
    BY DataType
  <2>2. 0 \in Nat /\ faults \in 0 .. MaxFaults
    BY DEF SaveAssumption
  <2>3. Save!TypeOK
    BY <2>1, <2>2, Zenon DEF Save!TypeOK
  <2> QED BY <2>2, <2>3, Zenon DEF SaveInv, Writing, Active
<1>2. SaveInv /\ [Save!Next]_Save!vars => SaveInv'
  <2> SUFFICES ASSUME SaveInv, [Save!Next]_Save!vars PROVE SaveInv'
    OBVIOUS
  <2>1. CASE UNCHANGED Save!vars
    <3>1. \A w \in Writers : Writing(w)'
      BY <2>1, Zenon DEF Save!vars, SaveInv, Writing
    <3> QED BY <2>1, <3>1, Zenon DEF Save!vars, SaveInv, Save!TypeOK
  <2> QED BY <2>1, LeaseOrFail, StatStep, ChunkStep, CommitStep, EndStep, CollectorStep, Zenon
          DEF Save!Next
<1> QED BY <1>1, <1>2, PTL DEF Save!Spec

(***************************************************************************)
(* "Client should validate that all bytes were written and that the digest *)
(* matches" (client.rs:256): for content of any length, any chunk size and *)
(* any number of writers that share a lease and an ingest, content that    *)
(* save_content has returned is in the store, complete.                    *)
(***************************************************************************)
THEOREM SavedContentIsWhole == SaveAssumption => (Save!Spec => []Save!SavedIsWhole)
<1>1. SaveInv => Save!SavedIsWhole
  BY Zenon DEF SaveInv, Writing, Save!SavedIsWhole
<1> QED BY <1>1, SaveInvariance, PTL

(***************************************************************************)
(* The chunks add up (client.rs:213-236), for content of any length, any   *)
(* chunk size and an ingest that is continued from any point: a save fails *)
(* only when another writer has the lease, a message is lost, or the       *)
(* ingest that it continues was begun with other bytes.                    *)
(***************************************************************************)
THEOREM SaveFailsForACause == SaveAssumption => (Save!Spec => []Save!FailureHasCause)
<1>1. SaveInv => Save!FailureHasCause
  BY Zenon DEF SaveInv, Writing, Save!FailureHasCause
<1> QED BY <1>1, SaveInvariance, PTL

=============================================================================
