---------------------- MODULE CandidateGenerationProofs ----------------------
(***************************************************************************)
(* Theorems about CandidateGeneration and its instances.                   *)
(***************************************************************************)
EXTENDS CandidateGeneration, WellFoundedInduction, TLAPS

Pipeline == INSTANCE CandidatePipeline
First == INSTANCE FirstOperation
PipelinePath == Pipeline!PipelinePath
OperationPath == First!OperationPath
Services == {ProviderPath, PipelinePath, OperationPath}

LEMMA NextPhase ==
    ASSUME NEW i \in 1..Len(path), i # Len(path), NEW p, path[i] = p,
           \A j \in 1..Len(path) : path[j] = p => j = i,
           NEW q, path[i + 1] = q
    PROVE  Then(p) = q
  <1> DEFINE c == CHOOSE j \in 1..Len(path) : path[j] = p
  <1>1. c \in 1..Len(path) /\ path[c] = p
    OBVIOUS
  <1>2. c = i
    BY <1>1
  <1>3. Then(p) = IF c = Len(path) THEN "idle" ELSE path[c + 1]
    BY DEF Then
  <1> HIDE DEF c
  <1> QED  BY <1>2, <1>3

LEMMA ProviderOrder ==
    ASSUME path = ProviderPath
    PROVE  /\ On("copy") /\ On("run")
           /\ path[1] = "settings"
           /\ Then("settings") = "gate"
           /\ Then("gate") = "acquire"
           /\ Then("acquire") = "digest"
           /\ Then("digest") = "ask"
           /\ Then("ask") = "copy"
           /\ Then("copy") = "patch"
           /\ Then("patch") = "test"
           /\ Then("test") = "compare"
           /\ Then("compare") = "export"
           /\ Then("export") = "commit"
           /\ Then("commit") = "run"
           /\ Then("run") = "point"
           /\ Then("point") = "point run"
           /\ Then("point run") = "log"
  <1>1. Len(path) = 15
    BY DEF ProviderPath
  <1>2. /\ path[1] = "settings" /\ path[2] = "gate" /\ path[3] = "acquire" /\ path[4] = "digest"
        /\ path[5] = "ask" /\ path[6] = "copy" /\ path[7] = "patch" /\ path[8] = "test"
        /\ path[9] = "compare" /\ path[10] = "export" /\ path[11] = "commit" /\ path[12] = "run"
        /\ path[13] = "point" /\ path[14] = "point run" /\ path[15] = "log"
    BY DEF ProviderPath
  <1>3. \A j \in 1..Len(path) : j \in {1, 2, 3, 4, 5, 6, 7, 8, 9, 10, 11, 12, 13, 14, 15}
    BY <1>1
  <1>4. Then("settings") = "gate"
    <2>1. \A j \in 1..Len(path) : path[j] = "settings" => j = 1
      BY <1>2, <1>3
    <2>2. 1 \in 1..Len(path) /\ 1 # Len(path) /\ 1 + 1 = 2
      BY <1>1
    <2>3. path[1] = "settings" /\ path[1 + 1] = "gate"
      BY <1>2, <2>2
    <2> QED  BY <2>1, <2>2, <2>3, NextPhase
  <1>5. Then("gate") = "acquire"
    <2>1. \A j \in 1..Len(path) : path[j] = "gate" => j = 2
      BY <1>2, <1>3
    <2>2. 2 \in 1..Len(path) /\ 2 # Len(path) /\ 2 + 1 = 3
      BY <1>1
    <2>3. path[2] = "gate" /\ path[2 + 1] = "acquire"
      BY <1>2, <2>2
    <2> QED  BY <2>1, <2>2, <2>3, NextPhase
  <1>6. Then("acquire") = "digest"
    <2>1. \A j \in 1..Len(path) : path[j] = "acquire" => j = 3
      BY <1>2, <1>3
    <2>2. 3 \in 1..Len(path) /\ 3 # Len(path) /\ 3 + 1 = 4
      BY <1>1
    <2>3. path[3] = "acquire" /\ path[3 + 1] = "digest"
      BY <1>2, <2>2
    <2> QED  BY <2>1, <2>2, <2>3, NextPhase
  <1>7. Then("digest") = "ask"
    <2>1. \A j \in 1..Len(path) : path[j] = "digest" => j = 4
      BY <1>2, <1>3
    <2>2. 4 \in 1..Len(path) /\ 4 # Len(path) /\ 4 + 1 = 5
      BY <1>1
    <2>3. path[4] = "digest" /\ path[4 + 1] = "ask"
      BY <1>2, <2>2
    <2> QED  BY <2>1, <2>2, <2>3, NextPhase
  <1>8. Then("ask") = "copy"
    <2>1. \A j \in 1..Len(path) : path[j] = "ask" => j = 5
      BY <1>2, <1>3
    <2>2. 5 \in 1..Len(path) /\ 5 # Len(path) /\ 5 + 1 = 6
      BY <1>1
    <2>3. path[5] = "ask" /\ path[5 + 1] = "copy"
      BY <1>2, <2>2
    <2> QED  BY <2>1, <2>2, <2>3, NextPhase
  <1>9. Then("copy") = "patch"
    <2>1. \A j \in 1..Len(path) : path[j] = "copy" => j = 6
      BY <1>2, <1>3
    <2>2. 6 \in 1..Len(path) /\ 6 # Len(path) /\ 6 + 1 = 7
      BY <1>1
    <2>3. path[6] = "copy" /\ path[6 + 1] = "patch"
      BY <1>2, <2>2
    <2> QED  BY <2>1, <2>2, <2>3, NextPhase
  <1>10. Then("patch") = "test"
    <2>1. \A j \in 1..Len(path) : path[j] = "patch" => j = 7
      BY <1>2, <1>3
    <2>2. 7 \in 1..Len(path) /\ 7 # Len(path) /\ 7 + 1 = 8
      BY <1>1
    <2>3. path[7] = "patch" /\ path[7 + 1] = "test"
      BY <1>2, <2>2
    <2> QED  BY <2>1, <2>2, <2>3, NextPhase
  <1>11. Then("test") = "compare"
    <2>1. \A j \in 1..Len(path) : path[j] = "test" => j = 8
      BY <1>2, <1>3
    <2>2. 8 \in 1..Len(path) /\ 8 # Len(path) /\ 8 + 1 = 9
      BY <1>1
    <2>3. path[8] = "test" /\ path[8 + 1] = "compare"
      BY <1>2, <2>2
    <2> QED  BY <2>1, <2>2, <2>3, NextPhase
  <1>12. Then("compare") = "export"
    <2>1. \A j \in 1..Len(path) : path[j] = "compare" => j = 9
      BY <1>2, <1>3
    <2>2. 9 \in 1..Len(path) /\ 9 # Len(path) /\ 9 + 1 = 10
      BY <1>1
    <2>3. path[9] = "compare" /\ path[9 + 1] = "export"
      BY <1>2, <2>2
    <2> QED  BY <2>1, <2>2, <2>3, NextPhase
  <1>13. Then("export") = "commit"
    <2>1. \A j \in 1..Len(path) : path[j] = "export" => j = 10
      BY <1>2, <1>3
    <2>2. 10 \in 1..Len(path) /\ 10 # Len(path) /\ 10 + 1 = 11
      BY <1>1
    <2>3. path[10] = "export" /\ path[10 + 1] = "commit"
      BY <1>2, <2>2
    <2> QED  BY <2>1, <2>2, <2>3, NextPhase
  <1>14. Then("commit") = "run"
    <2>1. \A j \in 1..Len(path) : path[j] = "commit" => j = 11
      BY <1>2, <1>3
    <2>2. 11 \in 1..Len(path) /\ 11 # Len(path) /\ 11 + 1 = 12
      BY <1>1
    <2>3. path[11] = "commit" /\ path[11 + 1] = "run"
      BY <1>2, <2>2
    <2> QED  BY <2>1, <2>2, <2>3, NextPhase
  <1>15. Then("run") = "point"
    <2>1. \A j \in 1..Len(path) : path[j] = "run" => j = 12
      BY <1>2, <1>3
    <2>2. 12 \in 1..Len(path) /\ 12 # Len(path) /\ 12 + 1 = 13
      BY <1>1
    <2>3. path[12] = "run" /\ path[12 + 1] = "point"
      BY <1>2, <2>2
    <2> QED  BY <2>1, <2>2, <2>3, NextPhase
  <1>16. Then("point") = "point run"
    <2>1. \A j \in 1..Len(path) : path[j] = "point" => j = 13
      BY <1>2, <1>3
    <2>2. 13 \in 1..Len(path) /\ 13 # Len(path) /\ 13 + 1 = 14
      BY <1>1
    <2>3. path[13] = "point" /\ path[13 + 1] = "point run"
      BY <1>2, <2>2
    <2> QED  BY <2>1, <2>2, <2>3, NextPhase
  <1>17. Then("point run") = "log"
    <2>1. \A j \in 1..Len(path) : path[j] = "point run" => j = 14
      BY <1>2, <1>3
    <2>2. 14 \in 1..Len(path) /\ 14 # Len(path) /\ 14 + 1 = 15
      BY <1>1
    <2>3. path[14] = "point run" /\ path[14 + 1] = "log"
      BY <1>2, <2>2
    <2> QED  BY <2>1, <2>2, <2>3, NextPhase
  <1>18. On("copy") /\ On("run")
    <2>1. 6 \in 1..Len(path) /\ 12 \in 1..Len(path)
      BY <1>1
    <2>2. path[6] = "copy" /\ path[12] = "run"
      BY <1>2
    <2> QED  BY <2>1, <2>2 DEF On, Contains
  <1> QED  BY <1>2, <1>18, <1>4, <1>5, <1>6, <1>7, <1>8, <1>9, <1>10, <1>11, <1>12, <1>13,
              <1>14, <1>15, <1>16, <1>17

LEMMA PipelineOrder ==
    ASSUME path = PipelinePath
    PROVE  /\ On("copy") /\ ~On("run")
           /\ path[1] = "gate"
           /\ Then("gate") = "acquire"
           /\ Then("acquire") = "digest"
           /\ Then("digest") = "copy"
           /\ Then("copy") = "patch"
           /\ Then("patch") = "test"
           /\ Then("test") = "compare"
           /\ Then("compare") = "export"
           /\ Then("export") = "commit"
           /\ Then("commit") = "point"
           /\ Then("point") = "log"
  <1>1. Len(path) = 11
    BY DEF PipelinePath, Pipeline!PipelinePath
  <1>2. /\ path[1] = "gate" /\ path[2] = "acquire" /\ path[3] = "digest" /\ path[4] = "copy"
        /\ path[5] = "patch" /\ path[6] = "test" /\ path[7] = "compare" /\ path[8] = "export"
        /\ path[9] = "commit" /\ path[10] = "point" /\ path[11] = "log"
    BY DEF PipelinePath, Pipeline!PipelinePath
  <1>3. \A j \in 1..Len(path) : j \in {1, 2, 3, 4, 5, 6, 7, 8, 9, 10, 11}
    BY <1>1
  <1>4. Then("gate") = "acquire"
    <2>1. \A j \in 1..Len(path) : path[j] = "gate" => j = 1
      BY <1>2, <1>3
    <2>2. 1 \in 1..Len(path) /\ 1 # Len(path) /\ 1 + 1 = 2
      BY <1>1
    <2>3. path[1] = "gate" /\ path[1 + 1] = "acquire"
      BY <1>2, <2>2
    <2> QED  BY <2>1, <2>2, <2>3, NextPhase
  <1>5. Then("acquire") = "digest"
    <2>1. \A j \in 1..Len(path) : path[j] = "acquire" => j = 2
      BY <1>2, <1>3
    <2>2. 2 \in 1..Len(path) /\ 2 # Len(path) /\ 2 + 1 = 3
      BY <1>1
    <2>3. path[2] = "acquire" /\ path[2 + 1] = "digest"
      BY <1>2, <2>2
    <2> QED  BY <2>1, <2>2, <2>3, NextPhase
  <1>6. Then("digest") = "copy"
    <2>1. \A j \in 1..Len(path) : path[j] = "digest" => j = 3
      BY <1>2, <1>3
    <2>2. 3 \in 1..Len(path) /\ 3 # Len(path) /\ 3 + 1 = 4
      BY <1>1
    <2>3. path[3] = "digest" /\ path[3 + 1] = "copy"
      BY <1>2, <2>2
    <2> QED  BY <2>1, <2>2, <2>3, NextPhase
  <1>7. Then("copy") = "patch"
    <2>1. \A j \in 1..Len(path) : path[j] = "copy" => j = 4
      BY <1>2, <1>3
    <2>2. 4 \in 1..Len(path) /\ 4 # Len(path) /\ 4 + 1 = 5
      BY <1>1
    <2>3. path[4] = "copy" /\ path[4 + 1] = "patch"
      BY <1>2, <2>2
    <2> QED  BY <2>1, <2>2, <2>3, NextPhase
  <1>8. Then("patch") = "test"
    <2>1. \A j \in 1..Len(path) : path[j] = "patch" => j = 5
      BY <1>2, <1>3
    <2>2. 5 \in 1..Len(path) /\ 5 # Len(path) /\ 5 + 1 = 6
      BY <1>1
    <2>3. path[5] = "patch" /\ path[5 + 1] = "test"
      BY <1>2, <2>2
    <2> QED  BY <2>1, <2>2, <2>3, NextPhase
  <1>9. Then("test") = "compare"
    <2>1. \A j \in 1..Len(path) : path[j] = "test" => j = 6
      BY <1>2, <1>3
    <2>2. 6 \in 1..Len(path) /\ 6 # Len(path) /\ 6 + 1 = 7
      BY <1>1
    <2>3. path[6] = "test" /\ path[6 + 1] = "compare"
      BY <1>2, <2>2
    <2> QED  BY <2>1, <2>2, <2>3, NextPhase
  <1>10. Then("compare") = "export"
    <2>1. \A j \in 1..Len(path) : path[j] = "compare" => j = 7
      BY <1>2, <1>3
    <2>2. 7 \in 1..Len(path) /\ 7 # Len(path) /\ 7 + 1 = 8
      BY <1>1
    <2>3. path[7] = "compare" /\ path[7 + 1] = "export"
      BY <1>2, <2>2
    <2> QED  BY <2>1, <2>2, <2>3, NextPhase
  <1>11. Then("export") = "commit"
    <2>1. \A j \in 1..Len(path) : path[j] = "export" => j = 8
      BY <1>2, <1>3
    <2>2. 8 \in 1..Len(path) /\ 8 # Len(path) /\ 8 + 1 = 9
      BY <1>1
    <2>3. path[8] = "export" /\ path[8 + 1] = "commit"
      BY <1>2, <2>2
    <2> QED  BY <2>1, <2>2, <2>3, NextPhase
  <1>12. Then("commit") = "point"
    <2>1. \A j \in 1..Len(path) : path[j] = "commit" => j = 9
      BY <1>2, <1>3
    <2>2. 9 \in 1..Len(path) /\ 9 # Len(path) /\ 9 + 1 = 10
      BY <1>1
    <2>3. path[9] = "commit" /\ path[9 + 1] = "point"
      BY <1>2, <2>2
    <2> QED  BY <2>1, <2>2, <2>3, NextPhase
  <1>13. Then("point") = "log"
    <2>1. \A j \in 1..Len(path) : path[j] = "point" => j = 10
      BY <1>2, <1>3
    <2>2. 10 \in 1..Len(path) /\ 10 # Len(path) /\ 10 + 1 = 11
      BY <1>1
    <2>3. path[10] = "point" /\ path[10 + 1] = "log"
      BY <1>2, <2>2
    <2> QED  BY <2>1, <2>2, <2>3, NextPhase
  <1>14. On("copy")
    BY <1>1, <1>2 DEF On, Contains
  <1>15. ~On("run")
    BY <1>2, <1>3 DEF On, Contains
  <1> QED  BY <1>2, <1>14, <1>15, <1>4, <1>5, <1>6, <1>7, <1>8, <1>9, <1>10, <1>11, <1>12, <1>13

LEMMA OperationOrder ==
    ASSUME path = OperationPath
    PROVE  /\ ~On("copy") /\ ~On("run")
           /\ path[1] = "acquire"
           /\ Then("acquire") = "gate"
           /\ Then("gate") = "digest"
           /\ Then("digest") = "index"
           /\ Then("index") = "compare"
           /\ Then("compare") = "commit"
           /\ Then("commit") = "point"
           /\ Then("point") = "log"
  <1>1. Len(path) = 8
    BY DEF OperationPath, First!OperationPath
  <1>2. /\ path[1] = "acquire" /\ path[2] = "gate" /\ path[3] = "digest" /\ path[4] = "index"
        /\ path[5] = "compare" /\ path[6] = "commit" /\ path[7] = "point" /\ path[8] = "log"
    BY DEF OperationPath, First!OperationPath
  <1>3. \A j \in 1..Len(path) : j \in {1, 2, 3, 4, 5, 6, 7, 8}
    BY <1>1
  <1>4. Then("acquire") = "gate"
    <2>1. \A j \in 1..Len(path) : path[j] = "acquire" => j = 1
      BY <1>2, <1>3
    <2>2. 1 \in 1..Len(path) /\ 1 # Len(path) /\ 1 + 1 = 2
      BY <1>1
    <2>3. path[1] = "acquire" /\ path[1 + 1] = "gate"
      BY <1>2, <2>2
    <2> QED  BY <2>1, <2>2, <2>3, NextPhase
  <1>5. Then("gate") = "digest"
    <2>1. \A j \in 1..Len(path) : path[j] = "gate" => j = 2
      BY <1>2, <1>3
    <2>2. 2 \in 1..Len(path) /\ 2 # Len(path) /\ 2 + 1 = 3
      BY <1>1
    <2>3. path[2] = "gate" /\ path[2 + 1] = "digest"
      BY <1>2, <2>2
    <2> QED  BY <2>1, <2>2, <2>3, NextPhase
  <1>6. Then("digest") = "index"
    <2>1. \A j \in 1..Len(path) : path[j] = "digest" => j = 3
      BY <1>2, <1>3
    <2>2. 3 \in 1..Len(path) /\ 3 # Len(path) /\ 3 + 1 = 4
      BY <1>1
    <2>3. path[3] = "digest" /\ path[3 + 1] = "index"
      BY <1>2, <2>2
    <2> QED  BY <2>1, <2>2, <2>3, NextPhase
  <1>7. Then("index") = "compare"
    <2>1. \A j \in 1..Len(path) : path[j] = "index" => j = 4
      BY <1>2, <1>3
    <2>2. 4 \in 1..Len(path) /\ 4 # Len(path) /\ 4 + 1 = 5
      BY <1>1
    <2>3. path[4] = "index" /\ path[4 + 1] = "compare"
      BY <1>2, <2>2
    <2> QED  BY <2>1, <2>2, <2>3, NextPhase
  <1>8. Then("compare") = "commit"
    <2>1. \A j \in 1..Len(path) : path[j] = "compare" => j = 5
      BY <1>2, <1>3
    <2>2. 5 \in 1..Len(path) /\ 5 # Len(path) /\ 5 + 1 = 6
      BY <1>1
    <2>3. path[5] = "compare" /\ path[5 + 1] = "commit"
      BY <1>2, <2>2
    <2> QED  BY <2>1, <2>2, <2>3, NextPhase
  <1>9. Then("commit") = "point"
    <2>1. \A j \in 1..Len(path) : path[j] = "commit" => j = 6
      BY <1>2, <1>3
    <2>2. 6 \in 1..Len(path) /\ 6 # Len(path) /\ 6 + 1 = 7
      BY <1>1
    <2>3. path[6] = "commit" /\ path[6 + 1] = "point"
      BY <1>2, <2>2
    <2> QED  BY <2>1, <2>2, <2>3, NextPhase
  <1>10. Then("point") = "log"
    <2>1. \A j \in 1..Len(path) : path[j] = "point" => j = 7
      BY <1>2, <1>3
    <2>2. 7 \in 1..Len(path) /\ 7 # Len(path) /\ 7 + 1 = 8
      BY <1>1
    <2>3. path[7] = "point" /\ path[7 + 1] = "log"
      BY <1>2, <2>2
    <2> QED  BY <2>1, <2>2, <2>3, NextPhase
  <1>11. ~On("copy") /\ ~On("run")
    BY <1>1, <1>2, <1>3 DEF On, Contains
  <1> QED  BY <1>2, <1>11, <1>4, <1>5, <1>6, <1>7, <1>8, <1>9, <1>10

(* The orders of the three services, by what tells them apart: the first   *)
(* operation copies nothing, and only the provider keeps run records.      *)
LEMMA Order ==
    ASSUME path \in Services
    PROVE  /\ On("run") => On("copy")
           /\ path[1] = IF On("run") THEN "settings" ELSE IF On("copy") THEN "gate" ELSE "acquire"
           /\ On("run") => Then("settings") = "gate"
           /\ Then("gate") = IF On("copy") THEN "acquire" ELSE "digest"
           /\ Then("acquire") = IF On("copy") THEN "digest" ELSE "gate"
           /\ Then("digest") = IF On("run") THEN "ask" ELSE IF On("copy") THEN "copy" ELSE "index"
           /\ On("run") => Then("ask") = "copy"
           /\ On("copy") => /\ Then("copy") = "patch" /\ Then("patch") = "test"
                            /\ Then("test") = "compare" /\ Then("export") = "commit"
           /\ ~On("copy") => Then("index") = "compare"
           /\ Then("compare") = IF On("copy") THEN "export" ELSE "commit"
           /\ Then("commit") = IF On("run") THEN "run" ELSE "point"
           /\ On("run") => Then("run") = "point"
           /\ Then("point") = IF On("run") THEN "point run" ELSE "log"
           /\ On("run") => Then("point run") = "log"
  <1>1. CASE path = ProviderPath
    BY <1>1, ProviderOrder
  <1>2. CASE path = PipelinePath
    BY <1>2, PipelineOrder
  <1>3. CASE path = OperationPath
    BY <1>3, OperationOrder
  <1> QED  BY <1>1, <1>2, <1>3 DEF Services
-----------------------------------------------------------------------------
(* The invariant                                                           *)

(* The phases under the lock before a candidate is committed, and after,   *)
(* and those of a review; the first operation asks the gate under the lock *)
(* too.                                                                    *)
Before == {"digest", "ask", "copy", "patch", "test", "compare", "index", "export", "commit"}
After == {"run", "point", "point run"}
Deciding == {"save review", "log review"}

Uncommitted(p) == p \in Before \/ (p = "gate" /\ ~On("copy"))
UnderLock(p) == Uncommitted(p) \/ p \in After \/ p \in Deciding

Phases ==
    Before \cup After \cup Deciding
    \cup {"idle", "settings", "gate", "acquire", "write settings", "ping", "log"}

Works == [attempt : Nat, copied : Nat, app : Nat, dist : Nat, state : SUBSET Nat]
Archives == [attempt : Nat, app : Nat]
Records == [attempt : Nat, before : Nat, app : Nat, review : Decisions \cup {"PENDING"}]
RunRecords == [key : Keys, attempt : Ids]
Reviews == [key : Keys, decision : Decisions]
Drafts == [before : Nat, copied : Nat, app : Nat, passed : BOOLEAN]
Numbered == Ids \X Calls

FilesTyped ==
    /\ path \in Services
    /\ source \in Seq(Versions) /\ Len(source) >= 1
    /\ dashboard \in Settings \cup {None}
    /\ workspace \in [Keys -> Works]
    /\ export \in [Keys -> Archives]
    /\ records \in [Keys -> Records]
    /\ runs \subseteq RunRecords
    /\ latest \in Keys \cup {None}
    /\ latestRun \in Nat
    /\ reviews \in Seq(Reviews)

(* A worker in a phase serves a request that leads there, on a path that   *)
(* has it.                                                                 *)
Fits(p, c, d) ==
    /\ p \in Phases /\ c \in Numbered \cup {NoCall} /\ d \in Drafts
    /\ p # "idle" => c \in Numbered
    /\ p \in Before \cup After \cup {"gate"} => c[2].op = "generate"
    /\ p \in Deciding => c[2].op = "review"
    /\ p = "acquire" => c[2].op \in {"generate", "review"}
    /\ p = "settings" => c[2].op = "probe" \/ (c[2].op = "generate" /\ On("run"))
    /\ p = "write settings" => c[2].op = "save settings"
    /\ p = "ping" => c[2].op = "probe"
    /\ p \in {"copy", "patch", "test", "export"} => On("copy")
    /\ p \in {"ask", "run", "point run"} => On("run")
    /\ p = "index" => ~On("copy")

WorkersTyped ==
    /\ lock \in Workers \cup {Nobody}
    /\ pc \in [Workers -> Phases]
    /\ call \in [Workers -> Numbered \cup {NoCall}]
    /\ draft \in [Workers -> Drafts]
    /\ \A w \in Workers : Fits(pc[w], call[w], draft[w])
    /\ requests \in 0..MaxRequests

(* Whoever is in a section of the lock holds it.                           *)
LockInv == \A w \in Workers : UnderLock(pc[w]) => lock = w

(* Of the history s of a source, moment m is b or later; and the contents  *)
(* of b had not changed until m, or they came back after they changed.     *)
Kept(s, b, m) ==
    /\ b \in 1..Len(s) /\ m \in b..Len(s)
    /\ m = b \/ \E j \in b + 1..Len(s) : s[j] = s[b]

(* What the n-th request leaves in workspace x, whatever lay there.        *)
Made(s, x, n, copied, app) ==
    /\ x.attempt = n /\ x.copied = copied /\ x.app = app
    /\ s[copied] \in Built => x.dist = copied

(* What request n for k has read and written under the lock when it is in  *)
(* phase p.  The reads are in order: the digest comes first and the source *)
(* as it is now last.                                                      *)
Held(p, n, k, d) ==
    /\ Uncommitted(p) => ~Committed(k)
    /\ p \in After \cup Deciding => Committed(k)
    /\ p \in {"ask", "copy", "patch", "test", "compare", "index"} =>
          d.before \in 1..Len(source)
    /\ p = "patch" =>
          d.copied \in d.before..Len(source) /\ Made(source, workspace[k], n, d.copied, d.copied)
    /\ p \in {"test", "compare"} => d.app \in d.before..Len(source)
    /\ p \in {"test", "compare"} /\ On("copy") =>
          d.copied \in d.before..d.app /\ Made(source, workspace[k], n, d.copied, d.app)
    /\ p \in {"export", "commit"} => Kept(source, d.before, d.app)
    /\ p \in {"export", "commit"} /\ On("copy") =>
          Kept(source, d.before, d.copied) /\ Made(source, workspace[k], n, d.copied, d.app)
    /\ p \in {"compare", "export", "commit"} /\ On("copy") => n \in workspace[k].state
    /\ p = "commit" /\ On("copy") => export[k] = Archive(n, d.app)
    /\ p = "run" => records[k].attempt = n
    /\ p \in {"point", "point run"} /\ On("run") => [key |-> k, attempt |-> n] \in runs

HeldInv ==
    \A w \in Workers : UnderLock(pc[w]) => Held(pc[w], Number(w), Key(w), draft[w])

(* What is committed is one attempt's, made of one source.                 *)
WholeOf(s, r, x, e) ==
    /\ Kept(s, r.before, x.copied) /\ Made(s, x, r.attempt, x.copied, r.app)
    /\ r.attempt \in x.state
    /\ e = Archive(r.attempt, r.app)

Whole(k) ==
    Committed(k) =>
        /\ Kept(source, records[k].before, records[k].app)
        /\ On("copy") => WholeOf(source, records[k], workspace[k], export[k])

WholeInv == \A k \in Keys : Whole(k)

(* Pointers and run records are about what is committed; only a worker     *)
(* about to write its run record has committed without one.                *)
HasRun(k) == [key |-> k, attempt |-> records[k].attempt] \in runs
SavesRun(w, k) == pc[w] = "run" /\ Key(w) = k

RunInv ==
    /\ latest # None => Committed(latest)
    /\ latestRun # 0 => \E r \in runs : r.attempt = latestRun
    /\ \A r \in runs : records[r.key].attempt = r.attempt
    /\ On("run") /\ crashes = 0 =>
          \A k \in Keys : Committed(k) => HasRun(k) \/ \E w \in Workers : SavesRun(w, k)

(* Reviews are of what is committed; only a worker about to log its review *)
(* has written a decision without it.                                      *)
LogsReview(w, k) == pc[w] = "log review" /\ Key(w) = k

ReviewInv ==
    /\ \A i \in DOMAIN reviews : Committed(reviews[i].key)
    /\ \A w \in Workers :
          pc[w] = "log review" => records[Key(w)].review = Asked(w).decision
    /\ crashes = 0 =>
          \A k \in Keys :
              records[k].review = LastDecision(k) \/ \E w \in Workers : LogsReview(w, k)

IInv ==
    /\ FilesTyped /\ WorkersTyped /\ crashes \in Nat
    /\ LockInv /\ HeldInv /\ WholeInv /\ RunInv /\ ReviewInv
-----------------------------------------------------------------------------
(* Requests and moves                                                      *)

LEMMA CallFields ==
    ASSUME NEW c \in Calls
    PROVE  /\ c.op \in {"generate", "review", "save settings", "probe"}
           /\ c.op \in {"generate", "review"} => c.key \in Keys
           /\ c.op = "review" => c.decision \in Decisions
           /\ c.op = "save settings" => c.settings \in Settings
  BY DEF Calls

LEMMA Asks ==
    ASSUME WorkersTyped, NEW w \in Workers, pc[w] # "idle"
    PROVE  /\ Number(w) \in Ids /\ Asked(w) \in Calls
           /\ UnderLock(pc[w]) => Key(w) \in Keys
           /\ pc[w] \in {"acquire", "gate"} => Key(w) \in Keys
  <1>1. call[w] \in Numbered /\ Fits(pc[w], call[w], draft[w])
    BY DEF WorkersTyped, Fits
  <1>2. Number(w) \in Ids /\ Asked(w) \in Calls
    BY <1>1 DEF Number, Asked, Numbered
  <1>3. pc[w] \in Before \cup After \cup Deciding \cup {"gate", "acquire"} =>
            Asked(w).op \in {"generate", "review"}
    BY <1>1 DEF Fits, Asked
  <1> QED  BY <1>2, <1>3, CallFields DEF Key, UnderLock, Uncommitted

(* Worker w goes to phase p with request c and memory d.                   *)
Moves(w, p, c, d) ==
    /\ pc' = [pc EXCEPT ![w] = p]
    /\ call' = [call EXCEPT ![w] = c]
    /\ draft' = [draft EXCEPT ![w] = d]
    /\ UNCHANGED path

(* The lock is taken when it is free and left by its holder.               *)
LockMoves(w) == lock' \in {lock, w, Nobody} /\ (lock' # lock => lock \in {w, Nobody})

LEMMA MovedPhases ==
    ASSUME WorkersTyped, NEW w \in Workers, NEW p, NEW c, NEW d, Moves(w, p, c, d)
    PROVE  /\ pc'[w] = p /\ call'[w] = c /\ draft'[w] = d
           /\ \A v \in Workers \ {w} : pc'[v] = pc[v] /\ call'[v] = call[v] /\ draft'[v] = draft[v]
           /\ \A v \in Workers \ {w} :
                 Number(v)' = Number(v) /\ Asked(v)' = Asked(v) /\ Key(v)' = Key(v)
  <1>1. /\ pc'[w] = p /\ call'[w] = c /\ draft'[w] = d
        /\ \A v \in Workers \ {w} : pc'[v] = pc[v] /\ call'[v] = call[v] /\ draft'[v] = draft[v]
    BY DEF Moves, WorkersTyped
  <1> QED  BY <1>1 DEF Number, Asked, Key

LEMMA SamePath ==
    ASSUME path' = path
    PROVE  /\ \A phase : On(phase)' = On(phase)
           /\ \A p : UnderLock(p)' = UnderLock(p) /\ Uncommitted(p)' = Uncommitted(p)
           /\ \A p, c, d : Fits(p, c, d)' = Fits(p, c, d)
  BY DEF On, UnderLock, Uncommitted, Fits

LEMMA MovedWorkers ==
    ASSUME WorkersTyped, LockInv, NEW w \in Workers, NEW p, NEW c, NEW d,
           Moves(w, p, c, d), Fits(p, c, d), LockMoves(w),
           UnderLock(p) => lock' = w,
           requests' \in requests..MaxRequests
    PROVE  WorkersTyped' /\ LockInv'
  <1>1. path' = path
    BY DEF Moves
  <1>2. \A v \in Workers : Fits(pc'[v], call'[v], draft'[v])
    BY MovedPhases DEF WorkersTyped
  <1>3. WorkersTyped'
    <2>1. /\ pc' \in [Workers -> Phases] /\ call' \in [Workers -> Numbered \cup {NoCall}]
          /\ draft' \in [Workers -> Drafts]
      BY DEF Moves, WorkersTyped, Fits
    <2>2. lock' \in Workers \cup {Nobody}
      BY DEF WorkersTyped, LockMoves
    <2>3. requests' \in 0..MaxRequests
      BY BoundsAssumption DEF WorkersTyped
    <2> QED  BY <1>1, <1>2, <2>1, <2>2, <2>3, SamePath DEF WorkersTyped
  <1>4. ASSUME NEW v \in Workers \ {w}, UnderLock(pc'[v]) PROVE lock' = v
    <2>1. lock = v
      BY <1>4, MovedPhases DEF LockInv
    <2> QED  BY <2>1, NobodyAssumption DEF LockMoves
  <1> QED  BY <1>1, <1>3, <1>4, SamePath, MovedPhases DEF LockInv

(* A move that writes no file but the settings: what the worker knows in   *)
(* its new phase is shown once, and the rest is as it was.                 *)
Quietly(w, p, c, d) ==
    /\ Moves(w, p, c, d) /\ LockMoves(w) /\ Fits(p, c, d)
    /\ UNCHANGED <<source, files, crashes>>
    /\ dashboard' \in Settings \cup {None}
    /\ requests' \in requests..MaxRequests
    /\ pc[w] \notin {"run", "log review"} /\ p # "log review"
    /\ UnderLock(p) => lock' = w /\ Held(p, c[1], c[2].key, d)

LEMMA RequestsLeft ==
    ASSUME WorkersTyped
    PROVE  requests \in Nat /\ requests \in requests..MaxRequests
  <1>1. requests \in 0..MaxRequests /\ MaxRequests \in Nat
    BY BoundsAssumption DEF WorkersTyped
  <1> QED  BY <1>1

LEMMA SameHeld ==
    ASSUME UNCHANGED <<path, source, workspace, export, records, runs>>
    PROVE  \A p, n, k, d : Held(p, n, k, d)' = Held(p, n, k, d)
  BY DEF Held, Committed, Uncommitted, On

LEMMA QuietHeld ==
    ASSUME IInv, NEW w \in Workers, NEW p, NEW c, NEW d, Quietly(w, p, c, d)
    PROVE  HeldInv'
  <1>1. WorkersTyped /\ LockInv /\ HeldInv /\ Moves(w, p, c, d)
    BY DEF IInv, Quietly
  <1>2. UNCHANGED <<path, source, workspace, export, records, runs>>
    BY DEF Quietly, Moves, files
  <1>3. ASSUME NEW v \in Workers, UnderLock(pc'[v])
        PROVE  Held(pc'[v], Number(v)', Key(v)', draft'[v])
    <2>1. CASE v = w
      <3>1. pc'[v] = p /\ Number(v)' = c[1] /\ Key(v)' = c[2].key /\ draft'[v] = d
        BY <1>1, <2>1, MovedPhases DEF Number, Key, Asked
      <3> QED  BY <1>3, <3>1 DEF Quietly
    <2>2. CASE v # w
      BY <1>1, <1>3, <2>2, MovedPhases DEF HeldInv
    <2> QED  BY <2>1, <2>2
  <1>4. \A v \in Workers : UnderLock(pc[v])' = UnderLock(pc'[v])
    BY <1>2, SamePath
  <1> QED  BY <1>2, <1>3, <1>4, SameHeld DEF HeldInv

(* The run records, as long as no attempt is committed or dropped.         *)
LEMMA RunsKept ==
    ASSUME IInv, UNCHANGED <<path, crashes>>,
           \A k \in Keys : records'[k].attempt = records[k].attempt,
           runs \subseteq runs',
           \A r \in runs' \ runs : r.key \in Keys /\ records[r.key].attempt = r.attempt,
           latest' = latest \/ (latest' \in Keys /\ records[latest'].attempt # 0),
           latestRun' = latestRun \/ \E r \in runs : r.attempt = latestRun',
           \A v \in Workers, k \in Keys : SavesRun(v, k) => SavesRun(v, k)' \/ HasRun(k)'
    PROVE  RunInv'
  <1>1. RunInv /\ runs \subseteq RunRecords /\ latest \in Keys \cup {None}
    BY DEF IInv, FilesTyped
  <1>2. latest' # None => Committed(latest)'
    BY <1>1 DEF RunInv, Committed
  <1>3. latestRun' # 0 => \E r \in runs' : r.attempt = latestRun'
    BY <1>1 DEF RunInv
  <1>4. \A r \in runs' : records'[r.key].attempt = r.attempt
    <2>1. \A r \in runs : r.key \in Keys
      BY <1>1 DEF RunRecords
    <2> QED  BY <1>1, <2>1 DEF RunInv
  <1>5. ASSUME On("run"), crashes = 0, NEW k \in Keys, Committed(k)'
        PROVE  HasRun(k)' \/ \E v \in Workers : SavesRun(v, k)'
    <2>1. HasRun(k) \/ \E v \in Workers : SavesRun(v, k)
      BY <1>1, <1>5 DEF RunInv, Committed
    <2>2. HasRun(k) => HasRun(k)'
      BY DEF HasRun
    <2> QED  BY <2>1, <2>2
  <1> QED  BY <1>2, <1>3, <1>4, <1>5, SamePath DEF RunInv

LEMMA ReviewKeys ==
    ASSUME FilesTyped
    PROVE  \A i \in DOMAIN reviews : reviews[i].key \in Keys
  <1>1. reviews \in Seq(Reviews)
    BY DEF FilesTyped
  <1>2. \A i \in DOMAIN reviews : reviews[i] \in Reviews
    BY <1>1
  <1> QED  BY <1>2 DEF Reviews

LEMMA SameLog ==
    ASSUME UNCHANGED reviews
    PROVE  \A k : LastDecision(k)' = LastDecision(k)
  BY DEF LastDecision

(* The reviews, as long as none is made.                                   *)
LEMMA ReviewsKept ==
    ASSUME IInv, UNCHANGED <<reviews, crashes>>,
           \A k \in Keys : /\ records'[k].review = records[k].review
                           /\ Committed(k) => Committed(k)',
           \A v \in Workers : pc'[v] = "log review" <=> pc[v] = "log review",
           \A v \in Workers : pc[v] = "log review" =>
               Asked(v)' = Asked(v) /\ Key(v)' = Key(v)
    PROVE  ReviewInv'
  <1>1. ReviewInv /\ reviews \in Seq(Reviews)
    BY DEF IInv, FilesTyped
  <1>2. \A i \in DOMAIN reviews : reviews[i].key \in Keys
    BY ReviewKeys DEF IInv
  <1>3. \A i \in DOMAIN reviews' : Committed(reviews[i].key)'
    BY <1>1, <1>2 DEF ReviewInv, Committed
  <1>4. ASSUME NEW v \in Workers, pc'[v] = "log review"
        PROVE  records'[Key(v)'].review = Asked(v)'.decision
    <2>1. pc[v] = "log review" /\ Asked(v)' = Asked(v) /\ Key(v)' = Key(v)
      BY <1>4
    <2>2. Key(v) \in Keys
      BY <2>1, Asks DEF IInv, UnderLock, Deciding
    <2> QED  BY <1>1, <2>1, <2>2 DEF ReviewInv
  <1>5. ASSUME crashes = 0, NEW k \in Keys
        PROVE  records'[k].review = LastDecision(k)' \/ \E v \in Workers : LogsReview(v, k)'
    <2>1. LastDecision(k)' = LastDecision(k)
      BY SameLog
    <2>2. records[k].review = LastDecision(k) \/ \E v \in Workers : LogsReview(v, k)
      BY <1>1, <1>5 DEF ReviewInv
    <2>3. \A v \in Workers : LogsReview(v, k) => LogsReview(v, k)'
      BY DEF LogsReview
    <2> QED  BY <2>1, <2>2, <2>3
  <1> QED  BY <1>3, <1>4, <1>5 DEF ReviewInv

LEMMA QuietKeeps ==
    ASSUME IInv, NEW w \in Workers, NEW p, NEW c, NEW d, Quietly(w, p, c, d)
    PROVE  IInv'
  <1>1. WorkersTyped' /\ LockInv'
    BY MovedWorkers DEF IInv, Quietly
  <1>2. HeldInv'
    BY QuietHeld
  <1>3. UNCHANGED <<path, source, crashes, workspace, export, records, runs, latest, latestRun,
                    reviews>>
    BY DEF Quietly, Moves, files
  <1>4. FilesTyped'
    BY <1>3 DEF IInv, FilesTyped, Quietly
  <1>5. WholeInv'
    BY <1>3, SamePath DEF IInv, WholeInv, Whole, Committed
  <1>6. /\ \A v \in Workers : pc[v] \in {"run", "log review"} =>
              pc'[v] = pc[v] /\ Asked(v)' = Asked(v) /\ Key(v)' = Key(v)
        /\ \A v \in Workers : pc'[v] = "log review" => pc[v] = "log review"
    BY MovedPhases DEF IInv, Quietly
  <1>7. RunInv'
    BY <1>3, <1>6, RunsKept DEF SavesRun
  <1>8. ReviewInv'
    BY <1>3, <1>6, ReviewsKept DEF Committed
  <1> QED  BY <1>1, <1>2, <1>3, <1>4, <1>5, <1>7, <1>8 DEF IInv

(* The end of a request, in whatever phase that has written what it has to.*)
LEMMA AnswerQuiet ==
    ASSUME IInv, NEW w \in Workers, NEW answer, Answer(w, answer), UNCHANGED files,
           pc[w] \notin {"run", "log review"}
    PROVE  IInv'
  <1>1. Moves(w, "idle", NoCall, NoDraft) /\ LockMoves(w)
    BY DEF Answer, Moves, Released, LockMoves
  <1>2. Fits("idle", NoCall, NoDraft) /\ ~UnderLock("idle")
    BY DEF Fits, Phases, Before, After, Deciding, NoDraft, Draft, Drafts, UnderLock, Uncommitted
  <1>3. requests' \in requests..MaxRequests /\ dashboard' \in Settings \cup {None}
        /\ UNCHANGED <<source, files, crashes>>
    <2>1. UNCHANGED <<path, source, dashboard, requests, crashes>>
      BY DEF Answer, counters
    <2>2. dashboard \in Settings \cup {None}
      BY DEF IInv, FilesTyped
    <2>3. requests \in requests..MaxRequests
      BY RequestsLeft DEF IInv
    <2> QED  BY <2>1, <2>2, <2>3
  <1>4. Quietly(w, "idle", NoCall, NoDraft)
    BY <1>1, <1>2, <1>3 DEF Quietly
  <1> QED  BY <1>4, QuietKeeps

(* The next phase of a request that has written nothing in this one.       *)
LEMMA ProceedQuiet ==
    ASSUME IInv, NEW w \in Workers, NEW p, NEW d, Proceed(w, p, d), UNCHANGED files,
           LockMoves(w), Fits(p, call[w], d), pc[w] \notin {"run", "log review"},
           p # "log review",
           UnderLock(p) => lock' = w /\ Held(p, Number(w), Key(w), d)
    PROVE  IInv'
  <1>1. Moves(w, p, call[w], d)
    BY DEF Proceed, Moves, IInv, WorkersTyped
  <1>2. requests' \in requests..MaxRequests /\ dashboard' \in Settings \cup {None}
        /\ UNCHANGED <<source, files, crashes>>
    <2>1. UNCHANGED <<path, source, dashboard, requests, crashes>>
      BY DEF Proceed, counters
    <2>2. dashboard \in Settings \cup {None}
      BY DEF IInv, FilesTyped
    <2>3. requests \in requests..MaxRequests
      BY RequestsLeft DEF IInv
    <2> QED  BY <2>1, <2>2, <2>3
  <1>3. Quietly(w, p, call[w], d)
    BY <1>1, <1>2 DEF Quietly, Number, Key, Asked
  <1> QED  BY <1>3, QuietKeeps

LEMMA CheckQuiet ==
    ASSUME IInv, NEW w \in Workers, NEW phase, NEW ok, NEW next, Check(w, phase, ok, next),
           phase \notin {"run", "log review"}, next # "log review",
           ok => Fits(next, call[w], draft[w]),
           ok /\ UnderLock(next) => lock = w /\ Held(next, Number(w), Key(w), draft[w])
    PROVE  IInv'
  <1>1. CASE ok /\ Proceed(w, next, draft[w]) /\ UNCHANGED lock
    BY <1>1, ProceedQuiet DEF Check, LockMoves
  <1>2. CASE Answer(w, "refused")
    BY <1>2, AnswerQuiet DEF Check
  <1> QED  BY <1>1, <1>2 DEF Check

(* What is known of a worker where it stands.                              *)
LEMMA Standing ==
    ASSUME IInv, NEW w \in Workers
    PROVE  /\ Fits(pc[w], call[w], draft[w])
           /\ UnderLock(pc[w]) => lock = w /\ Held(pc[w], Number(w), Key(w), draft[w])
           /\ path \in Services /\ draft[w] \in Drafts
           /\ source \in Seq(Versions) /\ Len(source) \in Nat /\ Len(source) >= 1
  <1>1. source \in Seq(Versions) /\ Len(source) >= 1
    BY DEF IInv, FilesTyped
  <1>2. Len(source) \in Nat
    BY <1>1
  <1>3. Fits(pc[w], call[w], draft[w]) /\ draft[w] \in Drafts /\ path \in Services
    BY DEF IInv, WorkersTyped, FilesTyped
  <1>4. UnderLock(pc[w]) => lock = w /\ Held(pc[w], Number(w), Key(w), draft[w])
    BY DEF IInv, LockInv, HeldInv
  <1> QED  BY <1>1, <1>2, <1>3, <1>4

LEMMA ReadSettingsStep ==
    ASSUME IInv, NEW w \in Workers, ReadSettings(w)
    PROVE  IInv'
  <1> DEFINE next == IF Asked(w).op = "probe" THEN "ping" ELSE Then("settings")
  <1>1. Check(w, "settings", Effective # "disabled", next) /\ pc[w] = "settings"
    BY DEF ReadSettings, Check
  <1>2. Fits(next, call[w], draft[w]) /\ ~UnderLock(next) /\ next # "log review"
    BY <1>1, Standing, Order
       DEF Fits, Asked, Phases, UnderLock, Uncommitted, Before, After, Deciding
  <1> HIDE DEF next
  <1> QED  BY <1>1, <1>2, CheckQuiet

LEMMA QualityGateStep ==
    ASSUME IInv, NEW w \in Workers, QualityGate(w)
    PROVE  IInv'
  <1> DEFINE next == Then("gate")
  <1>1. PICK satisfied \in BOOLEAN : Check(w, "gate", satisfied, next)
    BY DEF QualityGate
  <1>2. pc[w] = "gate"
    BY <1>1 DEF Check
  <1>3. Fits(next, call[w], draft[w]) /\ next # "log review"
    BY <1>2, Standing, Order DEF Fits, Phases, Before, After, Deciding
  <1>4. ASSUME UnderLock(next)
        PROVE  lock = w /\ Held(next, Number(w), Key(w), draft[w])
    <2>1. ~On("copy") /\ next = "digest"
      BY <1>4, Standing, Order DEF UnderLock, Uncommitted, Before, After, Deciding
    <2> QED  BY <1>2, <2>1, Standing DEF Held, UnderLock, Uncommitted, Before, After, Deciding
  <1> HIDE DEF next
  <1> QED  BY <1>1, <1>3, <1>4, CheckQuiet

LEMMA AcquireStep ==
    ASSUME IInv, NEW w \in Workers, Acquire(w)
    PROVE  IInv'
  <1>1. pc[w] = "acquire" /\ Asked(w).op = "generate" /\ lock = Nobody /\ UNCHANGED files
    BY DEF Acquire, LockFree
  <1>2. CASE Answer(w, "reused")
    BY <1>1, <1>2, AnswerQuiet
  <1>3. CASE ~Existing(Key(w)) /\ lock' = w /\ Proceed(w, Then("acquire"), draft[w])
    <2>1. Then("acquire") \in {"digest", "gate"}
      BY Standing, Order
    <2>2. Fits(Then("acquire"), call[w], draft[w])
      BY <1>1, <2>1, Standing DEF Fits, Asked, Phases, Before, After, Deciding
    <2>3. Held(Then("acquire"), Number(w), Key(w), draft[w])
      BY <1>3, <2>1 DEF Held, Existing, Committed, Uncommitted, After, Deciding
    <2> QED  BY <1>1, <1>3, <2>1, <2>2, <2>3, ProceedQuiet DEF LockMoves
  <1> QED  BY <1>2, <1>3 DEF Acquire

LEMMA DigestStep ==
    ASSUME IInv, NEW w \in Workers, Digest(w)
    PROVE  IInv'
  <1> DEFINE d == Draft(Len(source), 0, 0, FALSE)
  <1>1. pc[w] = "digest" /\ Proceed(w, Then("digest"), d) /\ UNCHANGED <<lock, files>>
    BY DEF Digest, Reads, Now
  <1>2. d.before = Len(source) /\ d \in Drafts
    BY Standing DEF Draft, Drafts
  <1> HIDE DEF d
  <1>3. lock = w /\ ~Committed(Key(w))
    BY <1>1, Standing DEF UnderLock, Uncommitted, Before, Held
  <1>4. \/ Then("digest") = "ask" /\ On("run")
        \/ Then("digest") = "copy" /\ On("copy")
        \/ Then("digest") = "index" /\ ~On("copy")
    BY Standing, Order
  <1>5. Fits(Then("digest"), call[w], d)
    BY <1>1, <1>2, <1>4, Standing DEF Fits, Phases, Before, After, Deciding
  <1>6. Held(Then("digest"), Number(w), Key(w), d)
    <2>1. d.before \in 1..Len(source)
      BY <1>2, Standing
    <2> QED  BY <1>3, <1>4, <2>1 DEF Held, After, Deciding
  <1> QED  BY <1>1, <1>3, <1>4, <1>5, <1>6, ProceedQuiet DEF LockMoves

LEMMA AskStep ==
    ASSUME IInv, NEW w \in Workers, Ask(w)
    PROVE  IInv'
  <1> DEFINE next == Then("ask")
  <1>1. PICK valid \in BOOLEAN : Check(w, "ask", valid, next)
    BY DEF Ask
  <1>2. pc[w] = "ask"
    BY <1>1 DEF Check
  <1>3. next = "copy" /\ On("copy")
    BY <1>2, Standing, Order DEF Fits
  <1>4. lock = w /\ ~Committed(Key(w)) /\ draft[w].before \in 1..Len(source)
    BY <1>2, Standing DEF UnderLock, Uncommitted, Before, Held
  <1>5. Fits(next, call[w], draft[w]) /\ next # "log review"
    BY <1>2, <1>3, Standing DEF Fits, Phases, Before, After, Deciding
  <1>6. Held(next, Number(w), Key(w), draft[w])
    BY <1>3, <1>4 DEF Held, After, Deciding
  <1> HIDE DEF next
  <1> QED  BY <1>1, <1>4, <1>5, <1>6, CheckQuiet

LEMMA IndexStep ==
    ASSUME IInv, NEW w \in Workers, First!Index(w)
    PROVE  IInv'
  <1> DEFINE d == Draft(draft[w].before, 0, Len(source), TRUE)
  <1>1. pc[w] = "index" /\ Proceed(w, Then("index"), d) /\ UNCHANGED <<lock, files>>
    BY DEF First!Index, First!Generation!Reads, First!Generation!Proceed, First!Generation!Draft,
           First!Generation!Then, First!Generation!counters, First!Generation!Now, Proceed, Then, Draft, counters, files
  <1>2. d.before = draft[w].before /\ d.app = Len(source) /\ d \in Drafts
    BY Standing DEF Draft, Drafts
  <1> HIDE DEF d
  <1>3. lock = w /\ Held("index", Number(w), Key(w), draft[w])
    BY <1>1, Standing DEF UnderLock, Uncommitted, Before
  <1>4. Then("index") = "compare" /\ ~On("copy")
    BY <1>1, Standing, Order DEF Fits
  <1>5. Fits(Then("index"), call[w], d)
    BY <1>1, <1>2, <1>4, Standing DEF Fits, Phases, Before, After, Deciding
  <1>6. d.before \in 1..Len(source) /\ d.app \in d.before..Len(source)
    <2>1. d.before \in 1..Len(source)
      BY <1>2, <1>3 DEF Held
    <2> QED  BY <1>2, <2>1, Standing
  <1>7. Held(Then("index"), Number(w), Key(w), d)
    BY <1>3, <1>4, <1>6 DEF Held, Uncommitted, Before, After, Deciding
  <1> QED  BY <1>1, <1>3, <1>4, <1>5, <1>7, ProceedQuiet DEF LockMoves

(* What was copied and patched lies between the two digests, which agree.  *)
LEMMA CompareStep ==
    ASSUME IInv, NEW w \in Workers, Compare(w)
    PROVE  IInv'
  <1> DEFINE next == Then("compare")
             ok == SourceUnchanged(w) /\ draft[w].passed
  <1>1. Check(w, "compare", ok, next) /\ pc[w] = "compare"
    BY DEF Compare, Check
  <1>2. \/ next = "export" /\ On("copy")
        \/ next = "commit" /\ ~On("copy")
    BY Standing, Order
  <1>3. lock = w /\ Held("compare", Number(w), Key(w), draft[w])
    BY <1>1, Standing DEF UnderLock, Uncommitted, Before
  <1>4. Fits(next, call[w], draft[w]) /\ next # "log review"
    BY <1>1, <1>2, Standing DEF Fits, Phases, Before, After, Deciding
  <1>5. ASSUME ok PROVE Held(next, Number(w), Key(w), draft[w])
    <2> DEFINE d == draft[w]
    <2>4. /\ d.before \in 1..Len(source) /\ d.app \in d.before..Len(source)
          /\ source[Len(source)] = source[d.before]
      BY <1>3, <1>5 DEF SourceUnchanged, Held, Now
    <2>5. Len(source) \in Nat
      BY Standing
    <2>6. On("copy") => /\ d.copied \in d.before..d.app
                        /\ Made(source, workspace[Key(w)], Number(w), d.copied, d.app)
                        /\ Number(w) \in workspace[Key(w)].state
      BY <1>3 DEF Held
    <2>7. ASSUME NEW m \in d.before..Len(source) PROVE Kept(source, d.before, m)
      <3>1. CASE Len(source) = d.before
        <4>1. m = d.before
          BY <2>4, <2>5, <3>1
        <4> QED  BY <2>4, <2>7, <4>1 DEF Kept
      <3>2. CASE Len(source) # d.before
        <4>1. Len(source) \in d.before + 1..Len(source)
          BY <2>4, <2>5, <3>2
        <4> QED  BY <2>4, <2>7, <4>1 DEF Kept
      <3> QED  BY <3>1, <3>2
    <2>1. Kept(source, d.before, d.app)
      BY <2>4, <2>7
    <2>2. On("copy") => Kept(source, d.before, d.copied)
      <3>1. On("copy") => d.copied \in d.before..Len(source)
        BY <2>4, <2>5, <2>6
      <3> QED  BY <2>7, <3>1
    <2>3. ~Committed(Key(w))
      BY <1>3 DEF Held, Uncommitted, Before
    <2> QED  BY <1>2, <2>1, <2>2, <2>3, <2>6 DEF Held, After, Deciding
  <1> HIDE DEF next, ok
  <1> QED  BY <1>1, <1>3, <1>4, <1>5, CheckQuiet

LEMMA LogStep ==
    ASSUME IInv, NEW w \in Workers, Log(w)
    PROVE  IInv'
  <1>1. pc[w] = "log" /\ UNCHANGED files /\ \E answer : Answer(w, answer)
    BY DEF Log
  <1> QED  BY <1>1, AnswerQuiet

LEMMA SaveSettingsStep ==
    ASSUME IInv, NEW w \in Workers, SaveSettings(w)
    PROVE  IInv'
  <1>1. pc[w] = "write settings"
    BY DEF SaveSettings
  <1>2. Asked(w).settings \in Settings
    BY <1>1, Standing, CallFields, Asks DEF Fits, Asked, IInv
  <1>3. Moves(w, "log", call[w], draft[w]) /\ LockMoves(w)
    BY DEF SaveSettings, Moves, LockMoves, IInv, WorkersTyped
  <1>4. Fits("log", call[w], draft[w]) /\ ~UnderLock("log")
    BY <1>1, Standing DEF Fits, Phases, UnderLock, Uncommitted, Before, After, Deciding
  <1>5. requests \in requests..MaxRequests
    BY RequestsLeft DEF IInv
  <1>6. Quietly(w, "log", call[w], draft[w])
    BY <1>1, <1>2, <1>3, <1>4, <1>5 DEF Quietly, SaveSettings, counters
  <1> QED  BY <1>6, QuietKeeps

LEMMA ProbeStep ==
    ASSUME IInv, NEW w \in Workers, Probe(w)
    PROVE  IInv'
  <1> DEFINE next == "log"
  <1>1. PICK up \in BOOLEAN : Check(w, "ping", up, next)
    BY DEF Probe
  <1>2. pc[w] = "ping"
    BY <1>1 DEF Check
  <1>3. Fits(next, call[w], draft[w]) /\ ~UnderLock(next) /\ next # "log review"
    BY <1>2, Standing DEF Fits, Phases, UnderLock, Uncommitted, Before, After, Deciding
  <1> HIDE DEF next
  <1> QED  BY <1>1, <1>3, CheckQuiet

LEMMA LoadStep ==
    ASSUME IInv, NEW w \in Workers, Load(w)
    PROVE  IInv'
  <1>1. pc[w] = "acquire" /\ Asked(w).op = "review" /\ lock = Nobody /\ UNCHANGED files
    BY DEF Load, LockFree
  <1>2. CASE Answer(w, "refused")
    BY <1>1, <1>2, AnswerQuiet
  <1>3. CASE Existing(Key(w)) /\ lock' = w /\ Proceed(w, "save review", draft[w])
    <2>1. Fits("save review", call[w], draft[w])
      BY <1>1, Standing DEF Fits, Asked, Phases, Before, After, Deciding
    <2>2. Held("save review", Number(w), Key(w), draft[w])
      BY <1>3 DEF Held, Existing, Committed, Uncommitted, Before, After, Deciding
    <2> QED  BY <1>1, <1>3, <2>1, <2>2, ProceedQuiet DEF LockMoves
  <1> QED  BY <1>2, <1>3 DEF Load

LEMMA AcceptStep ==
    ASSUME IInv, NEW w \in Workers, NEW c \in Calls, Accept(w, c)
    PROVE  IInv'
  <1> DEFINE p == FirstPhase(c)
             n == requests + 1
  <1>1. n \in Ids /\ <<n, c>> \in Numbered /\ requests' \in requests..MaxRequests
    <2>1. requests \in Nat /\ requests < MaxRequests /\ requests' = n /\ MaxRequests \in Nat
      BY RequestsLeft, BoundsAssumption DEF Accept, IInv
    <2> QED  BY <2>1 DEF Ids, Numbered
  <1>2. \/ c.op = "generate" /\ p = path[1]
        \/ c.op = "review" /\ p = "acquire"
        \/ c.op = "save settings" /\ p = "write settings"
        \/ c.op = "probe" /\ p = "settings"
    BY CallFields DEF FirstPhase
  <1>3. Fits(p, <<n, c>>, draft[w]) /\ ~UnderLock(p) /\ p # "log review"
    BY <1>1, <1>2, Standing, Order
       DEF Fits, Phases, UnderLock, Uncommitted, Before, After, Deciding
  <1>4. Moves(w, p, <<n, c>>, draft[w]) /\ LockMoves(w)
    BY DEF Accept, Moves, LockMoves, IInv, WorkersTyped
  <1>5. UNCHANGED <<source, dashboard, files, crashes>> /\ pc[w] = "idle"
    BY DEF Accept
  <1>6. dashboard' \in Settings \cup {None}
    BY <1>5 DEF IInv, FilesTyped
  <1> HIDE DEF p, n
  <1>7. Quietly(w, p, <<n, c>>, draft[w])
    BY <1>1, <1>3, <1>4, <1>5, <1>6 DEF Quietly
  <1> QED  BY <1>7, QuietKeeps

-----------------------------------------------------------------------------
(* The phases that write a file                                            *)

(* The holder of the lock goes on; nobody else is under it.                *)
Writing(w, p, d) ==
    /\ Moves(w, p, call[w], d) /\ Fits(p, call[w], d)
    /\ lock = w /\ UnderLock(pc[w])
    /\ UNCHANGED <<lock, source, dashboard, requests, crashes>>
    /\ UnderLock(p) => Held(p, Number(w), Key(w), d)'

LEMMA WriterMoves ==
    ASSUME IInv, NEW w \in Workers, NEW p, NEW d, Proceed(w, p, d), UNCHANGED lock,
           UnderLock(pc[w]), Fits(p, call[w], d),
           UnderLock(p) => Held(p, Number(w), Key(w), d)'
    PROVE  Writing(w, p, d)
  <1>1. Moves(w, p, call[w], d)
    BY DEF Proceed, Moves, IInv, WorkersTyped
  <1>2. UNCHANGED <<source, dashboard, requests, crashes>>
    BY DEF Proceed, counters
  <1> QED  BY <1>1, <1>2, Standing DEF Writing

LEMMA Alone ==
    ASSUME IInv, NEW w \in Workers, NEW p, NEW d, Writing(w, p, d)
    PROVE  /\ \A v \in Workers \ {w} : ~UnderLock(pc[v]) /\ pc[v] \notin {"run", "log review"}
           /\ \A v \in Workers \ {w} : ~UnderLock(pc'[v]) /\ pc'[v] \notin {"run", "log review"}
           /\ pc'[w] = p /\ draft'[w] = d
           /\ Number(w)' = Number(w) /\ Asked(w)' = Asked(w) /\ Key(w)' = Key(w)
           /\ Key(w) \in Keys /\ Number(w) \in Ids
  <1>1. \A v \in Workers \ {w} : ~UnderLock(pc[v])
    BY DEF Writing, IInv, LockInv
  <1>2. \A v \in Workers \ {w} : pc[v] \notin {"run", "log review"}
    BY <1>1 DEF UnderLock, After, Deciding
  <1>3. pc'[w] = p /\ draft'[w] = d /\ call'[w] = call[w]
        /\ \A v \in Workers \ {w} : pc'[v] = pc[v]
    BY MovedPhases DEF Writing, IInv
  <1>4. pc[w] # "idle"
    BY DEF Writing, UnderLock, Uncommitted, Before, After, Deciding
  <1>5. Key(w) \in Keys /\ Number(w) \in Ids
    BY <1>4, Asks DEF IInv, Writing
  <1> QED  BY <1>1, <1>2, <1>3, <1>5 DEF Number, Asked, Key

LEMMA WriterKeeps ==
    ASSUME IInv, NEW w \in Workers, NEW p, NEW d, Writing(w, p, d)
    PROVE  WorkersTyped' /\ LockInv' /\ HeldInv'
  <1>1. requests' \in requests..MaxRequests
    BY RequestsLeft DEF IInv, Writing
  <1>2. WorkersTyped' /\ LockInv'
    BY <1>1, MovedWorkers DEF Writing, IInv, LockMoves
  <1>3. \A v \in Workers : UnderLock(pc[v])' = UnderLock(pc'[v])
    BY SamePath DEF Writing, Moves
  <1>4. ASSUME NEW v \in Workers, UnderLock(pc'[v])
        PROVE  v = w
    BY <1>4, Alone
  <1>5. HeldInv'
    <2>1. UnderLock(pc[w])' => Held(pc[w], Number(w), Key(w), draft[w])'
      BY <1>3, Alone DEF Writing
    <2> QED  BY <1>3, <1>4, <2>1 DEF HeldInv
  <1> QED  BY <1>2, <1>5

(* A candidate in the making: workspace and archive of a key that is not   *)
(* committed.                                                              *)
LEMMA PrepareKeeps ==
    ASSUME IInv, NEW w \in Workers, NEW p, NEW d, Writing(w, p, d), Uncommitted(pc[w]),
           p # "log review",
           workspace' \in [Keys -> Works], export' \in [Keys -> Archives],
           \A k \in Keys \ {Key(w)} : workspace'[k] = workspace[k] /\ export'[k] = export[k],
           UNCHANGED <<records, runs, latest, latestRun, reviews>>
    PROVE  IInv'
  <1>1. WorkersTyped' /\ LockInv' /\ HeldInv'
    BY WriterKeeps
  <1>2. UNCHANGED <<path, source, dashboard, crashes>>
    BY DEF Writing, Moves
  <1>3. FilesTyped'
    BY <1>2 DEF IInv, FilesTyped
  <1>4. ~Committed(Key(w))
    BY Standing DEF Writing, Held
  <1>5. WholeInv'
    <2>1. ASSUME NEW k \in Keys PROVE Whole(k)'
      BY <1>2, <1>4, SamePath DEF IInv, WholeInv, Whole, Committed
    <2> QED  BY <2>1 DEF WholeInv
  <1>6. \A v \in Workers : pc[v] \notin {"run", "log review"} /\ pc'[v] # "log review"
    BY Alone DEF Uncommitted, Before
  <1>7. RunInv'
    BY <1>2, <1>6, RunsKept DEF SavesRun
  <1>8. ReviewInv'
    BY <1>2, <1>6, ReviewsKept DEF Committed
  <1> QED  BY <1>1, <1>2, <1>3, <1>5, <1>7, <1>8 DEF IInv

LEMMA NowIsLast ==
    ASSUME NEW n \in Nat, NEW b \in 1..n
    PROVE  n \in b..n
  OBVIOUS

LEMMA CopyStep ==
    ASSUME IInv, NEW w \in Workers, Copy(w)
    PROVE  IInv'
  <1> SUFFICES ASSUME NEW n, n = Len(source), NEW d, d = Draft(draft[w].before, n, 0, FALSE),
                      NEW old, old = workspace[Key(w)],
                      NEW dist, dist = (IF source[n] \in Built THEN n ELSE old.dist),
                      NEW x, x = Work(Number(w), n, n, dist, old.state)
               PROVE  IInv'
    OBVIOUS
  <1>1. /\ pc[w] = "copy" /\ Proceed(w, Then("copy"), d) /\ UNCHANGED lock
        /\ workspace' = [workspace EXCEPT ![Key(w)] = x]
        /\ UNCHANGED <<export, records, runs, latest, latestRun, reviews>>
    BY DEF Copy, Reads, Now
  <1>2. d.before = draft[w].before /\ d.copied = n /\ d \in Drafts
    BY Standing DEF Draft, Drafts
  <1>3. Then("copy") = "patch" /\ On("copy")
    BY <1>1, Standing, Order DEF Fits
  <1>4. Fits("patch", call[w], d)
    BY <1>1, <1>2, <1>3, Standing DEF Fits, Phases, Before, After, Deciding
  <1>5. ~Committed(Key(w)) /\ d.before \in 1..n
    BY <1>1, <1>2, Standing DEF Held, UnderLock, Uncommitted, Before
  <1>6. UNCHANGED <<path, source>> /\ Number(w)' = Number(w) /\ Key(w)' = Key(w)
    BY <1>1 DEF Proceed, Number, Key, Asked
  <1>11. Key(w) \in Keys /\ Number(w) \in Ids
    BY <1>1, Asks DEF IInv, UnderLock, Uncommitted, Before
  <1>12. workspace'[Key(w)] = x
    BY <1>1, <1>11 DEF IInv, FilesTyped
  <1>13. d.copied \in d.before..n /\ d.before \in 1..n
    <2>1. n \in Nat
      BY Standing
    <2> QED  BY <1>2, <1>5, <2>1, NowIsLast, Zenon
  <1>14. Made(source, x, Number(w), n, n)
    BY DEF Made, Work
  <1>7. Held("patch", Number(w), Key(w), d)'
    <2>1. ~Committed(Key(w))'
      BY <1>1, <1>5, <1>6 DEF Committed
    <2> QED  BY <1>2, <1>6, <1>12, <1>13, <1>14, <2>1 DEF Held, After, Deciding
  <1>8. Writing(w, "patch", d)
    BY <1>1, <1>3, <1>4, <1>7, WriterMoves DEF UnderLock, Uncommitted, Before
  <1>9. workspace' \in [Keys -> Works] /\ export' \in [Keys -> Archives]
    <2>1. old \in Works /\ workspace \in [Keys -> Works] /\ export \in [Keys -> Archives]
      BY <1>11 DEF IInv, FilesTyped
    <2>2. x \in Works
      BY <1>11, <2>1, Standing DEF Work, Works, Ids
    <2> QED  BY <1>1, <2>1, <2>2
  <1>10. \A k \in Keys \ {Key(w)} : workspace'[k] = workspace[k] /\ export'[k] = export[k]
    BY <1>1 DEF IInv, FilesTyped
  <1> QED  BY <1>1, <1>8, <1>9, <1>10, PrepareKeeps DEF Uncommitted, Before

LEMMA PatchStep ==
    ASSUME IInv, NEW w \in Workers, Patch(w)
    PROVE  IInv'
  <1>0. CASE Raises(w, "patch")
    BY <1>0, AnswerQuiet DEF Raises
  <1> SUFFICES ASSUME ~Raises(w, "patch"), NEW n, n = Len(source), NEW c, c = draft[w].copied,
                      NEW d, d = Draft(draft[w].before, c, n, FALSE),
                      NEW old, old = workspace[Key(w)],
                      NEW x, x = Work(Number(w), c, n, old.dist, old.state)
               PROVE  IInv'
    BY <1>0
  <1>1. /\ pc[w] = "patch" /\ Proceed(w, Then("patch"), d) /\ UNCHANGED lock
        /\ workspace' = [workspace EXCEPT ![Key(w)] = x]
        /\ UNCHANGED <<export, records, runs, latest, latestRun, reviews>>
    BY DEF Patch, Reads, Now
  <1>2. /\ d.before = draft[w].before /\ d.copied = c /\ d.app = n /\ d \in Drafts
    BY Standing DEF Draft, Drafts
  <1>3. Then("patch") = "test" /\ On("copy")
    BY <1>1, Standing, Order DEF Fits
  <1>4. Fits("test", call[w], d)
    BY <1>1, <1>2, <1>3, Standing DEF Fits, Phases, Before, After, Deciding
  <1>5. /\ ~Committed(Key(w)) /\ d.before \in 1..n /\ c \in d.before..n
        /\ Made(source, old, Number(w), c, c)
    BY <1>1, <1>2, Standing DEF Held, UnderLock, Uncommitted, Before
  <1>6. UNCHANGED <<path, source>> /\ Number(w)' = Number(w) /\ Key(w)' = Key(w)
    BY <1>1 DEF Proceed, Number, Key, Asked
  <1>11. Key(w) \in Keys /\ Number(w) \in Ids
    BY <1>1, Asks DEF IInv, UnderLock, Uncommitted, Before
  <1>12. workspace'[Key(w)] = x
    BY <1>1, <1>11 DEF IInv, FilesTyped
  <1>13. d.app \in d.before..n /\ d.copied \in d.before..d.app
    <2>1. n \in Nat
      BY Standing
    <2> QED  BY <1>2, <1>5, <2>1, NowIsLast, Zenon
  <1>14. Made(source, x, Number(w), c, n)
    BY <1>5 DEF Made, Work
  <1>7. Held("test", Number(w), Key(w), d)'
    <2>1. ~Committed(Key(w))'
      BY <1>1, <1>5, <1>6 DEF Committed
    <2> QED  BY <1>2, <1>5, <1>6, <1>12, <1>13, <1>14, <2>1 DEF Held, After, Deciding
  <1>8. Writing(w, "test", d)
    BY <1>1, <1>3, <1>4, <1>7, WriterMoves DEF UnderLock, Uncommitted, Before
  <1>9. workspace' \in [Keys -> Works] /\ export' \in [Keys -> Archives]
    <2>1. old \in Works /\ workspace \in [Keys -> Works] /\ export \in [Keys -> Archives]
      BY <1>11 DEF IInv, FilesTyped
    <2>2. c \in Nat /\ n \in Nat
      BY Standing DEF Drafts
    <2>3. x \in Works
      BY <1>11, <2>1, <2>2 DEF Work, Works, Ids
    <2> QED  BY <1>1, <2>1, <2>3
  <1>10. \A k \in Keys \ {Key(w)} : workspace'[k] = workspace[k] /\ export'[k] = export[k]
    BY <1>1 DEF IInv, FilesTyped
  <1> QED  BY <1>1, <1>8, <1>9, <1>10, PrepareKeeps DEF Uncommitted, Before

(* A test that raises ends its request and leaves a workspace.             *)
LEMMA TestRaises ==
    ASSUME IInv, NEW w \in Workers, pc[w] = "test", Answer(w, "refused"), NEW x \in Works,
           workspace' = [workspace EXCEPT ![Key(w)] = x],
           UNCHANGED <<export, records, runs, latest, latestRun, reviews>>
    PROVE  IInv'
  <1>1. UnderLock(pc[w]) /\ lock = w /\ ~Committed(Key(w))
    BY Standing DEF UnderLock, Uncommitted, Before, Held
  <1>2. Moves(w, "idle", NoCall, NoDraft) /\ LockMoves(w)
    BY DEF Answer, Moves, Released, LockMoves
  <1>3. Fits("idle", NoCall, NoDraft) /\ ~UnderLock("idle")
    BY DEF Fits, Phases, Before, After, Deciding, NoDraft, Draft, Drafts, UnderLock, Uncommitted
  <1>4. UNCHANGED <<path, source, dashboard, requests, crashes>>
    BY DEF Answer, counters
  <1>5. requests' \in requests..MaxRequests
    BY <1>4, RequestsLeft DEF IInv
  <1>6. WorkersTyped' /\ LockInv'
    BY <1>2, <1>3, <1>5, MovedWorkers DEF IInv
  <1>7. /\ pc'[w] = "idle"
        /\ \A v \in Workers \ {w} : pc'[v] = pc[v] /\ ~UnderLock(pc[v])
    BY <1>1, <1>2, MovedPhases DEF IInv, LockInv
  <1>8. HeldInv'
    <2>1. \A v \in Workers : ~UnderLock(pc'[v])
      BY <1>3, <1>7
    <2> QED  BY <1>4, <2>1, SamePath DEF HeldInv
  <1>9. FilesTyped'
    BY <1>4 DEF IInv, FilesTyped
  <1>10. \A k \in Keys \ {Key(w)} : workspace'[k] = workspace[k]
    BY DEF IInv, FilesTyped
  <1>11. WholeInv'
    <2>1. ASSUME NEW k \in Keys PROVE Whole(k)'
      BY <1>1, <1>4, <1>10, SamePath DEF IInv, WholeInv, Whole, Committed
    <2> QED  BY <2>1 DEF WholeInv
  <1>12. \A v \in Workers : /\ pc[v] \notin {"run", "log review"}
                             /\ pc'[v] \notin {"run", "log review"}
    BY <1>7 DEF UnderLock, After, Deciding
  <1>13. RunInv'
    BY <1>4, <1>12, RunsKept DEF SavesRun
  <1>14. ReviewInv'
    BY <1>4, <1>12, ReviewsKept DEF Committed
  <1> QED  BY <1>4, <1>6, <1>8, <1>9, <1>11, <1>13, <1>14 DEF IInv

LEMMA TestStep ==
    ASSUME IInv, NEW w \in Workers, Test(w)
    PROVE  IInv'
  <1> SUFFICES ASSUME NEW old, old = workspace[Key(w)],
                      NEW x, x = Work(old.attempt, old.copied, old.app, old.dist,
                                      old.state \cup {Number(w)})
               PROVE  IInv'
    OBVIOUS
  <1>1. /\ pc[w] = "test"
        /\ workspace' = [workspace EXCEPT ![Key(w)] = x]
        /\ UNCHANGED <<export, records, runs, latest, latestRun, reviews>>
    BY DEF Test
  <1>2. Key(w) \in Keys /\ Number(w) \in Ids
    BY <1>1, Asks DEF IInv, UnderLock, Uncommitted, Before
  <1>3. old \in Works /\ workspace \in [Keys -> Works] /\ export \in [Keys -> Archives]
    BY <1>2 DEF IInv, FilesTyped
  <1>4. x \in Works
    BY <1>2, <1>3 DEF Work, Works, Ids
  <1>5. CASE Answer(w, "refused")
    BY <1>1, <1>4, <1>5, TestRaises
  <1>6. ASSUME NEW passed \in BOOLEAN,
               Reads(w, "test", Draft(draft[w].before, draft[w].copied, draft[w].app, passed))
        PROVE  IInv'
    <2> SUFFICES ASSUME NEW d, d = Draft(draft[w].before, draft[w].copied, draft[w].app, passed)
                 PROVE  IInv'
      OBVIOUS
    <2>1. Proceed(w, Then("test"), d) /\ UNCHANGED lock
      BY <1>6 DEF Reads
    <2>2. /\ d.before = draft[w].before /\ d.copied = draft[w].copied /\ d.app = draft[w].app
          /\ d \in Drafts
      BY Standing DEF Draft, Drafts
    <2>3. Held("test", Number(w), Key(w), draft[w])
      BY <1>1, Standing DEF UnderLock, Uncommitted, Before
    <2>4. Then("test") = "compare" /\ On("copy")
      BY <1>1, Standing, Order DEF Fits
    <2>5. Fits("compare", call[w], d)
      BY <1>1, <2>2, <2>4, Standing DEF Fits, Phases, Before, After, Deciding
    <2>6. UNCHANGED <<path, source>> /\ Number(w)' = Number(w) /\ Key(w)' = Key(w)
      BY <2>1 DEF Proceed, Number, Key, Asked
    <2>7. workspace'[Key(w)] = x
      BY <1>1, <1>2, <1>3
    <2>8. /\ ~Committed(Key(w)) /\ d.before \in 1..Len(source)
          /\ d.app \in d.before..Len(source) /\ d.copied \in d.before..d.app
          /\ Made(source, old, Number(w), d.copied, d.app)
      BY <2>2, <2>3, <2>4 DEF Held, Uncommitted, Before
    <2>9. Made(source, x, Number(w), d.copied, d.app) /\ Number(w) \in x.state
      BY <2>8 DEF Made, Work
    <2>10. Held("compare", Number(w), Key(w), d)'
      <3>1. ~Committed(Key(w))'
        BY <1>1, <2>6, <2>8 DEF Committed
      <3>2. /\ Made(source', workspace'[Key(w)'], Number(w)', d.copied, d.app)
            /\ Number(w)' \in workspace'[Key(w)'].state
        BY <2>6, <2>7, <2>9
      <3>3. d.before \in 1..Len(source') /\ d.app \in d.before..Len(source')
        BY <2>6, <2>8
      <3> QED  BY <2>8, <3>1, <3>2, <3>3 DEF Held, After, Deciding
    <2>11. Writing(w, "compare", d)
      BY <1>1, <2>1, <2>4, <2>5, <2>10, WriterMoves DEF UnderLock, Uncommitted, Before
    <2>12. workspace' \in [Keys -> Works] /\ export' \in [Keys -> Archives]
      BY <1>1, <1>3, <1>4
    <2>13. \A k \in Keys \ {Key(w)} : workspace'[k] = workspace[k] /\ export'[k] = export[k]
      BY <1>1, <1>3
    <2> QED  BY <1>1, <2>11, <2>12, <2>13, PrepareKeeps DEF Uncommitted, Before
  <1> QED  BY <1>5, <1>6 DEF Test

LEMMA ExportStep ==
    ASSUME IInv, NEW w \in Workers, Export(w)
    PROVE  IInv'
  <1> SUFFICES ASSUME NEW d, d = draft[w], NEW made, made = workspace[Key(w)]
               PROVE  IInv'
    OBVIOUS
  <1>1. /\ pc[w] = "export" /\ Proceed(w, Then("export"), d) /\ UNCHANGED lock
        /\ export' = [export EXCEPT ![Key(w)] = Archive(made.attempt, made.app)]
        /\ UNCHANGED <<workspace, records, runs, latest, latestRun, reviews>>
    BY DEF Export, Writes, Reads
  <1>2. Then("export") = "commit" /\ On("copy")
    BY <1>1, Standing, Order DEF Fits
  <1>3. Fits("commit", call[w], d)
    BY <1>1, <1>2, Standing DEF Fits, Phases, Before, After, Deciding
  <1>4. /\ ~Committed(Key(w))
        /\ Kept(source, d.before, d.app) /\ Kept(source, d.before, d.copied)
        /\ Made(source, made, Number(w), d.copied, d.app) /\ Number(w) \in made.state
    BY <1>1, <1>2, Standing DEF Held, UnderLock, Uncommitted, Before
  <1>5. /\ Number(w)' = Number(w) /\ Key(w)' = Key(w) /\ Key(w) \in Keys
        /\ UNCHANGED <<path, source>>
    BY <1>1, Asks DEF Proceed, Number, Key, Asked, IInv, UnderLock, Uncommitted, Before
  <1>6. export'[Key(w)] = Archive(Number(w), d.app)
    BY <1>1, <1>4, <1>5 DEF IInv, FilesTyped, Made
  <1>7. Held("commit", Number(w), Key(w), d)'
    BY <1>1, <1>4, <1>5, <1>6 DEF Held, Committed, After, Deciding
  <1>8. Writing(w, "commit", d)
    BY <1>1, <1>2, <1>3, <1>7, WriterMoves DEF UnderLock, Uncommitted, Before
  <1>9. workspace' \in [Keys -> Works] /\ export' \in [Keys -> Archives]
    <2>1. made \in Works /\ workspace \in [Keys -> Works] /\ export \in [Keys -> Archives]
      BY <1>5 DEF IInv, FilesTyped
    <2>2. Archive(made.attempt, made.app) \in Archives
      BY <2>1 DEF Archive, Archives, Works
    <2> QED  BY <1>1, <2>1, <2>2
  <1>10. \A k \in Keys \ {Key(w)} : workspace'[k] = workspace[k] /\ export'[k] = export[k]
    BY <1>1 DEF IInv, FilesTyped
  <1> QED  BY <1>1, <1>8, <1>9, <1>10, PrepareKeeps DEF Uncommitted, Before

(* A set of positions has a last one.                                      *)
LEMMA LatestExists ==
    ASSUME NEW n \in Nat, NEW S, S \subseteq 1..n, S # {}
    PROVE  \E i \in S : \A j \in S : j <= i
  <1> DEFINE T == {n - i : i \in S}
  <1> DEFINE R == OpToRel(<, Nat)
  <1>1. T \subseteq Nat
    BY SMT
  <1>2. T # {}
    OBVIOUS
  <1>3. IsWellFoundedOn(R, Nat)
    BY NatLessThanWellFounded
  <1>4. \A x, y \in Nat : y < x => <<y, x>> \in R
    BY DEF OpToRel
  <1> HIDE DEF T, R
  <1>5. PICK x \in T : \A y \in T : ~ (<<y, x>> \in R)
    BY <1>1, <1>2, <1>3, WFMin
  <1>6. PICK i \in S : x = n - i
    BY DEF T
  <1>7. ASSUME NEW j \in S PROVE j <= i
    <2>1. n - j \in T
      BY DEF T
    <2>2. n - i \in Nat /\ n - j \in Nat /\ ~(n - j < n - i)
      BY <1>1, <1>4, <1>5, <1>6, <2>1
    <2>3. i \in 1..n /\ j \in 1..n
      OBVIOUS
    <2> QED  BY <2>2, <2>3
  <1> QED  BY <1>7

LEMMA Appended ==
    ASSUME NEW R, NEW s \in Seq(R), NEW e \in R
    PROVE  /\ Append(s, e) \in Seq(R) /\ Len(s) \in Nat
           /\ DOMAIN s = 1..Len(s) /\ DOMAIN Append(s, e) = 1..(Len(s) + 1)
           /\ \A i \in 1..Len(s) : Append(s, e)[i] = s[i]
           /\ Append(s, e)[Len(s) + 1] = e
  OBVIOUS

(* A review is the last one of its candidate, and of no other.             *)
LEMMA LastAppended ==
    ASSUME FilesTyped, NEW e \in Reviews, reviews' = Append(reviews, e), NEW k
    PROVE  LastDecision(k)' = IF e.key = k THEN e.decision ELSE LastDecision(k)
  <1> DEFINE n == Len(reviews)
             A == {i \in DOMAIN reviews : reviews[i].key = k}
             B == {i \in DOMAIN reviews' : reviews'[i].key = k}
  <1>1. /\ n \in Nat /\ DOMAIN reviews = 1..n /\ DOMAIN reviews' = 1..(n + 1)
        /\ \A i \in 1..n : reviews'[i] = reviews[i]
        /\ reviews'[n + 1] = e
    <2>1. reviews \in Seq(Reviews)
      BY DEF FilesTyped
    <2> QED  BY <2>1, Appended
  <1>2. LastDecision(k) = IF A = {} THEN "PENDING"
                          ELSE reviews[CHOOSE i \in A : \A j \in A : j <= i].decision
    BY DEF LastDecision
  <1>3. LastDecision(k)' = IF B = {} THEN "PENDING"
                           ELSE reviews'[CHOOSE i \in B : \A j \in B : j <= i].decision
    BY DEF LastDecision
  <1>4. CASE e.key = k
    <2> DEFINE c == CHOOSE i \in B : \A j \in B : j <= i
    <2>1. n + 1 \in B /\ \A j \in B : j \in 1..(n + 1)
      BY <1>1, <1>4
    <2>2. n + 1 \in B /\ \A j \in B : j <= n + 1
      BY <1>1, <2>1
    <2> HIDE DEF B
    <2>3. c \in B /\ n + 1 <= c
      BY <2>2
    <2>4. c = n + 1
      BY <1>1, <2>1, <2>3
    <2> HIDE DEF c
    <2> QED  BY <1>1, <1>3, <1>4, <2>2, <2>4 DEF c
  <1>5. CASE e.key # k
    <2>1. B = A
      BY <1>1, <1>5
    <2>2. A \subseteq 1..n
      BY <1>1
    <2>3. CASE A = {}
      BY <1>2, <1>3, <1>5, <2>1, <2>3
    <2>4. CASE A # {}
      <3> DEFINE c == CHOOSE i \in A : \A j \in A : j <= i
      <3>1. c \in A
        <4> HIDE DEF A
        <4> QED  BY <1>1, <2>2, <2>4, LatestExists
      <3>2. reviews'[c] = reviews[c]
        <4> HIDE DEF A, c
        <4> QED  BY <1>1, <2>2, <3>1
      <3>3. LastDecision(k)' = reviews'[c].decision
        <4> HIDE DEF A, B
        <4> QED  BY <1>3, <2>1, <2>4
      <3>4. LastDecision(k) = reviews[c].decision
        BY <1>2, <2>4
      <3> HIDE DEF c
      <3> QED  BY <1>5, <3>2, <3>3, <3>4
    <2> QED  BY <2>3, <2>4
  <1> QED  BY <1>4, <1>5

LEMMA NoneReviewed ==
    ASSUME NEW k, \A i \in DOMAIN reviews : reviews[i].key # k
    PROVE  LastDecision(k) = "PENDING"
  BY DEF LastDecision

LEMMA CommitStep ==
    ASSUME IInv, NEW w \in Workers, Commit(w)
    PROVE  IInv'
  <1> SUFFICES ASSUME NEW d, d = draft[w], NEW key, key = Key(w), NEW n, n = Number(w),
                      NEW p, p = Then("commit")
               PROVE  IInv'
    OBVIOUS
  <1>1. /\ pc[w] = "commit" /\ Proceed(w, p, d) /\ UNCHANGED lock
        /\ records' = [records EXCEPT ![key] = Record(n, d.before, d.app, "PENDING")]
        /\ UNCHANGED <<workspace, export, runs, latest, latestRun, reviews>>
    BY DEF Commit, Writes, Reads
  <1>2. (p = "run" /\ On("run")) \/ (p = "point" /\ ~On("run"))
    BY Standing, Order
  <1>3. Fits(p, call[w], d)
    BY <1>1, <1>2, Standing DEF Fits, Phases, Before, After, Deciding
  <1>4. key \in Keys /\ n \in Ids /\ n # 0 /\ d \in Drafts
    BY <1>1, Asks, Standing DEF IInv, UnderLock, Uncommitted, Before, Ids
  <1>5. /\ ~Committed(key) /\ Kept(source, d.before, d.app)
        /\ On("copy") => /\ Kept(source, d.before, d.copied)
                         /\ Made(source, workspace[key], n, d.copied, d.app)
                         /\ n \in workspace[key].state
                         /\ export[key] = Archive(n, d.app)
    BY <1>1, Standing DEF Held, UnderLock, Uncommitted, Before
  <1>6. /\ records'[key].attempt = n /\ records'[key].before = d.before
        /\ records'[key].app = d.app /\ records'[key].review = "PENDING"
        /\ \A k \in Keys \ {key} : records'[k] = records[k]
    BY <1>1, <1>4 DEF IInv, FilesTyped, Record
  <1>7. Committed(key)' /\ \A k \in Keys \ {key} : Committed(k)' <=> Committed(k)
    BY <1>4, <1>6 DEF Committed
  <1>8. Number(w)' = n /\ Key(w)' = key
    BY <1>1 DEF Proceed, Number, Key, Asked
  <1>9. Held(p, n, key, d)'
    BY <1>2, <1>6, <1>7, <1>1 DEF Held, Uncommitted, Before, Proceed, On
  <1>10. Writing(w, p, d)
    <2>1. Held(p, Number(w), Key(w), d)'
      BY <1>8, <1>9
    <2>2. UnderLock(pc[w])
      BY <1>1 DEF UnderLock, Uncommitted, Before
    <2> QED  BY <1>1, <1>3, <2>1, <2>2, WriterMoves
  <1>11. WorkersTyped' /\ LockInv' /\ HeldInv'
    BY <1>10, WriterKeeps
  <1>12. UNCHANGED <<path, source, dashboard, crashes>>
    BY <1>10 DEF Writing, Moves
  <1>13. FilesTyped'
    <2>1. Record(n, d.before, d.app, "PENDING") \in Records
      BY <1>4 DEF Record, Records, Drafts, Ids
    <2>2. records' \in [Keys -> Records]
      BY <1>1, <2>1 DEF IInv, FilesTyped
    <2> QED  BY <1>1, <1>12, <2>2 DEF IInv, FilesTyped
  <1>14. WholeInv'
    <2>1. Whole(key)'
      <3>1. Kept(source, records'[key].before, records'[key].app)
        BY <1>5, <1>6
      <3>2. On("copy") => WholeOf(source, records'[key], workspace[key], export[key])
        BY <1>5, <1>6 DEF WholeOf, Made
      <3> QED  BY <1>1, <1>12, <3>1, <3>2, SamePath DEF Whole
    <2>2. ASSUME NEW k \in Keys \ {key} PROVE Whole(k)'
      BY <1>1, <1>6, <1>7, <1>12, SamePath DEF IInv, WholeInv, Whole
    <2> QED  BY <2>1, <2>2 DEF WholeInv
  <1>15. \A v \in Workers : pc[v] \notin {"run", "log review"} /\ pc'[v] # "log review"
    BY <1>1, <1>2, <1>10, Alone
  <1>16. RunInv'
    <2>1. RunInv /\ runs \subseteq RunRecords /\ latest \in Keys \cup {None}
      BY DEF IInv, FilesTyped
    <2>2. latest' # None => Committed(latest)'
      BY <1>1, <1>6, <1>7, <2>1 DEF RunInv, Committed
    <2>3. \A r \in runs : r.key \in Keys /\ r.attempt \in Ids /\ records[r.key].attempt = r.attempt
      BY <2>1 DEF RunRecords, RunInv
    <2>4. \A r \in runs : r.key # key
      BY <1>5, <2>3 DEF Committed, Ids
    <2>5. \A r \in runs' : records'[r.key].attempt = r.attempt
      BY <1>1, <1>6, <2>3, <2>4
    <2>6. ASSUME On("run"), crashes = 0, NEW k \in Keys, Committed(k)'
          PROVE  HasRun(k)' \/ \E v \in Workers : SavesRun(v, k)'
      <3>1. CASE k = key
        <4>1. pc'[w] = "run"
          BY <1>2, <1>10, <2>6, Alone
        <4> QED  BY <1>8, <3>1, <4>1 DEF SavesRun
      <3>2. CASE k # key
        <4>1. HasRun(k)
          BY <1>7, <1>15, <2>1, <2>6, <3>2 DEF RunInv, SavesRun
        <4> QED  BY <1>1, <1>6, <3>2, <4>1 DEF HasRun
      <3> QED  BY <3>1, <3>2
    <2>7. latestRun' # 0 => \E r \in runs' : r.attempt = latestRun'
      BY <1>1, <2>1 DEF RunInv
    <2> QED  BY <1>12, <2>2, <2>5, <2>6, <2>7, SamePath DEF RunInv
  <1>17. ReviewInv'
    <2>1. ReviewInv /\ \A i \in DOMAIN reviews : reviews[i].key \in Keys
      BY ReviewKeys DEF IInv
    <2>2. \A i \in DOMAIN reviews : Committed(reviews[i].key) /\ reviews[i].key # key
      BY <1>5, <2>1 DEF ReviewInv
    <2>3. \A i \in DOMAIN reviews' : Committed(reviews[i].key)'
      BY <1>1, <1>7, <2>1, <2>2 DEF Committed
    <2>4. ASSUME crashes = 0, NEW k \in Keys
          PROVE  records'[k].review = LastDecision(k)'
      <3>1. LastDecision(k)' = LastDecision(k)
        BY <1>1, SameLog
      <3>2. CASE k = key
        BY <1>6, <2>2, <3>1, <3>2, NoneReviewed
      <3>3. CASE k # key
        BY <1>6, <1>15, <2>1, <2>4, <3>1, <3>3 DEF ReviewInv, LogsReview
      <3> QED  BY <3>2, <3>3
    <2> QED  BY <1>12, <1>15, <2>3, <2>4 DEF ReviewInv
  <1> QED  BY <1>11, <1>12, <1>13, <1>14, <1>16, <1>17 DEF IInv

(* After the commit: records and candidates stay, pointers follow.         *)
LEMMA AfterKeeps ==
    ASSUME IInv, NEW w \in Workers, NEW p, NEW d, Writing(w, p, d), pc[w] \in After,
           p # "log review", runs' \subseteq RunRecords, latest' \in Keys \cup {None},
           latestRun' \in Nat, UNCHANGED <<workspace, export, records, reviews>>, RunInv'
    PROVE  IInv'
  <1>1. WorkersTyped' /\ LockInv' /\ HeldInv'
    BY WriterKeeps
  <1>2. UNCHANGED <<path, source, dashboard, crashes>>
    BY DEF Writing, Moves
  <1>3. FilesTyped'
    BY <1>2 DEF IInv, FilesTyped
  <1>4. WholeInv'
    BY <1>2, SamePath DEF IInv, WholeInv, Whole, Committed
  <1>5. \A v \in Workers : pc[v] # "log review" /\ pc'[v] # "log review"
    BY Alone DEF After
  <1>6. ReviewInv'
    BY <1>2, <1>5, ReviewsKept DEF Committed
  <1> QED  BY <1>1, <1>2, <1>3, <1>4, <1>6 DEF IInv

LEMMA SaveRunStep ==
    ASSUME IInv, NEW w \in Workers, SaveRun(w)
    PROVE  IInv'
  <1> SUFFICES ASSUME NEW d, d = draft[w], NEW key, key = Key(w), NEW n, n = Number(w)
               PROVE  IInv'
    OBVIOUS
  <1>1. /\ pc[w] = "run" /\ Proceed(w, Then("run"), d) /\ UNCHANGED lock
        /\ runs' = runs \cup {[key |-> key, attempt |-> n]}
        /\ UNCHANGED <<workspace, export, records, latest, latestRun, reviews>>
    BY DEF SaveRun, Writes, Reads
  <1>2. Then("run") = "point" /\ On("run")
    BY <1>1, Standing, Order DEF Fits
  <1>3. Fits("point", call[w], d)
    BY <1>1, <1>2, Standing DEF Fits, Phases, Before, After, Deciding
  <1>4. key \in Keys /\ n \in Ids
    BY <1>1, Asks DEF IInv, UnderLock, After
  <1>5. Committed(key) /\ records[key].attempt = n
    BY <1>1, Standing DEF Held, UnderLock, After
  <1>6. Number(w)' = n /\ Key(w)' = key /\ UNCHANGED <<path, crashes>>
    BY <1>1 DEF Proceed, Number, Key, Asked, counters
  <1>7. Held("point", n, key, d)'
    BY <1>1, <1>5 DEF Held, Committed, Uncommitted, Before
  <1>8. Writing(w, "point", d)
    <2>1. Held("point", Number(w), Key(w), d)'
      BY <1>6, <1>7
    <2>2. UnderLock(pc[w])
      BY <1>1 DEF UnderLock, After
    <2> QED  BY <1>1, <1>2, <1>3, <2>1, <2>2, WriterMoves
  <1>9. HasRun(key)' /\ runs' \subseteq RunRecords
    <2>1. [key |-> key, attempt |-> n] \in RunRecords
      BY <1>4 DEF RunRecords
    <2>2. HasRun(key)'
      BY <1>1, <1>5 DEF HasRun
    <2> QED  BY <1>1, <2>1, <2>2 DEF IInv, FilesTyped
  <1>10. \A v \in Workers, k \in Keys : SavesRun(v, k) => HasRun(k)'
    BY <1>8, <1>9, Alone DEF SavesRun
  <1>11. RunInv'
    BY <1>1, <1>4, <1>5, <1>6, <1>10, RunsKept
  <1> QED  BY <1>1, <1>8, <1>9, <1>11, AfterKeeps DEF After, IInv, FilesTyped

LEMMA PointStep ==
    ASSUME IInv, NEW w \in Workers, Point(w)
    PROVE  IInv'
  <1> SUFFICES ASSUME NEW d, d = draft[w], NEW key, key = Key(w), NEW n, n = Number(w),
                      NEW p, p = Then("point")
               PROVE  IInv'
    OBVIOUS
  <1>1. /\ pc[w] = "point" /\ Proceed(w, p, d) /\ UNCHANGED lock /\ latest' = key
        /\ UNCHANGED <<workspace, export, records, runs, latestRun, reviews>>
    BY DEF Point, Writes, Reads
  <1>2. (p = "point run" /\ On("run")) \/ (p = "log" /\ ~On("run"))
    BY Standing, Order
  <1>3. Fits(p, call[w], d)
    BY <1>1, <1>2, Standing DEF Fits, Phases, Before, After, Deciding
  <1>4. key \in Keys
    BY <1>1, Asks DEF IInv, UnderLock, After
  <1>5. Committed(key) /\ (On("run") => [key |-> key, attempt |-> n] \in runs)
    BY <1>1, Standing DEF Held, UnderLock, After
  <1>6. Number(w)' = n /\ Key(w)' = key /\ UNCHANGED <<path, crashes>>
    BY <1>1 DEF Proceed, Number, Key, Asked, counters
  <1>7. UnderLock(p) => Held(p, n, key, d)'
    BY <1>1, <1>2, <1>5, <1>6
       DEF Held, Committed, Uncommitted, UnderLock, Before, After, Deciding, On
  <1>8. Writing(w, p, d)
    <2>1. UnderLock(p) => Held(p, Number(w), Key(w), d)'
      BY <1>6, <1>7
    <2>2. UnderLock(pc[w])
      BY <1>1 DEF UnderLock, After
    <2> QED  BY <1>1, <1>3, <2>1, <2>2, WriterMoves
  <1>9. \A v \in Workers : pc[v] # "run"
    BY <1>1, <1>8, Alone
  <1>10. RunInv'
    BY <1>1, <1>4, <1>5, <1>6, <1>9, RunsKept DEF SavesRun, Committed
  <1> QED  BY <1>1, <1>2, <1>4, <1>8, <1>10, AfterKeeps DEF After, IInv, FilesTyped

LEMMA PointRunStep ==
    ASSUME IInv, NEW w \in Workers, PointRun(w)
    PROVE  IInv'
  <1> SUFFICES ASSUME NEW d, d = draft[w], NEW key, key = Key(w), NEW n, n = Number(w)
               PROVE  IInv'
    OBVIOUS
  <1>1. /\ pc[w] = "point run" /\ Proceed(w, Then("point run"), d) /\ UNCHANGED lock
        /\ latestRun' = n
        /\ UNCHANGED <<workspace, export, records, runs, latest, reviews>>
    BY DEF PointRun, Writes, Reads
  <1>2. Then("point run") = "log" /\ On("run")
    BY <1>1, Standing, Order DEF Fits
  <1>3. Fits("log", call[w], d) /\ ~UnderLock("log")
    BY <1>1, Standing DEF Fits, UnderLock, Uncommitted, Phases, Before, After, Deciding
  <1>4. n \in Nat
    <2>1. n \in Ids
      BY <1>1, Asks DEF IInv
    <2> QED  BY <2>1 DEF Ids
  <1>5. [key |-> key, attempt |-> n] \in runs
    BY <1>1, <1>2, Standing DEF Held, UnderLock, After
  <1>6. UNCHANGED <<path, crashes>>
    BY <1>1 DEF Proceed, counters
  <1>7. UnderLock(pc[w])
    BY <1>1 DEF UnderLock, After
  <1>8. Writing(w, "log", d)
    BY <1>1, <1>2, <1>3, <1>7, WriterMoves
  <1>9. \A v \in Workers : pc[v] # "run"
    BY <1>1, <1>8, Alone
  <1>10. \E r \in runs : r.attempt = latestRun'
    BY <1>1, <1>5
  <1>11. RunInv'
    BY <1>1, <1>6, <1>9, <1>10, RunsKept DEF SavesRun
  <1> QED  BY <1>1, <1>4, <1>8, <1>11, AfterKeeps DEF After, IInv, FilesTyped

LEMMA SaveReviewStep ==
    ASSUME IInv, NEW w \in Workers, SaveReview(w)
    PROVE  IInv'
  <1> SUFFICES ASSUME NEW d, d = draft[w], NEW key, key = Key(w), NEW n, n = Number(w),
                      NEW r, r = records[key], NEW decision, decision = Asked(w).decision
               PROVE  IInv'
    OBVIOUS
  <1>1. /\ pc[w] = "save review" /\ Proceed(w, "log review", d)
        /\ records' = [records EXCEPT ![key] = Record(r.attempt, r.before, r.app, decision)]
        /\ UNCHANGED <<lock, workspace, export, runs, latest, latestRun, reviews>>
    BY DEF SaveReview
  <1>2. Fits("log review", call[w], d)
    BY <1>1, Standing DEF Fits, Phases, Before, After, Deciding
  <1>3. key \in Keys /\ decision \in Decisions /\ r \in Records
    <2>1. key \in Keys /\ Asked(w) \in Calls
      BY <1>1, Asks DEF IInv, UnderLock, Deciding
    <2>2. Asked(w).op = "review"
      BY <1>1, Standing DEF Fits, Asked, Deciding
    <2>3. r \in Records
      BY <2>1 DEF IInv, FilesTyped
    <2> QED  BY <2>1, <2>2, <2>3, CallFields
  <1>4. Committed(key)
    BY <1>1, Standing DEF Held, UnderLock, Deciding
  <1>5. /\ records'[key].attempt = r.attempt /\ records'[key].before = r.before
        /\ records'[key].app = r.app /\ records'[key].review = decision
        /\ \A k \in Keys \ {key} : records'[k] = records[k]
    BY <1>1, <1>3 DEF IInv, FilesTyped, Record
  <1>6. \A k \in Keys : /\ records'[k].attempt = records[k].attempt
                        /\ records'[k].before = records[k].before
                        /\ records'[k].app = records[k].app
    BY <1>5
  <1>7. Number(w)' = n /\ Key(w)' = key /\ Asked(w)' = Asked(w)
    BY <1>1 DEF Proceed, Number, Key, Asked
  <1>8. Held("log review", n, key, d)'
    BY <1>3, <1>4, <1>6 DEF Held, Committed, Uncommitted, Before, After, Deciding
  <1>9. Writing(w, "log review", d)
    <2>1. Held("log review", Number(w), Key(w), d)'
      BY <1>7, <1>8
    <2>2. UnderLock(pc[w])
      BY <1>1 DEF UnderLock, Deciding
    <2> QED  BY <1>1, <1>2, <2>1, <2>2, WriterMoves
  <1>10. WorkersTyped' /\ LockInv' /\ HeldInv'
    BY <1>9, WriterKeeps
  <1>11. UNCHANGED <<path, source, dashboard, crashes>>
    BY <1>9 DEF Writing, Moves
  <1>12. FilesTyped'
    <2>1. Record(r.attempt, r.before, r.app, decision) \in Records
      BY <1>3 DEF Record, Records
    <2>2. records' \in [Keys -> Records]
      BY <1>1, <2>1 DEF IInv, FilesTyped
    <2> QED  BY <1>1, <1>11, <2>2 DEF IInv, FilesTyped
  <1>13. WholeInv'
    BY <1>1, <1>6, <1>11, SamePath DEF IInv, WholeInv, Whole, WholeOf, Committed
  <1>14. \A v \in Workers : pc[v] # "run" /\ pc[v] # "log review"
    BY <1>1, <1>9, Alone
  <1>15. RunInv'
    BY <1>1, <1>6, <1>11, <1>14, RunsKept DEF SavesRun
  <1>16. ReviewInv'
    <2>1. ReviewInv /\ \A i \in DOMAIN reviews : reviews[i].key \in Keys
      BY ReviewKeys DEF IInv
    <2>2. \A i \in DOMAIN reviews' : Committed(reviews[i].key)'
      <3>1. reviews' = reviews
        BY <1>1
      <3>2. \A k \in Keys : Committed(k) => Committed(k)'
        BY <1>6 DEF Committed
      <3>3. \A i \in DOMAIN reviews : Committed(reviews[i].key)
        BY <2>1 DEF ReviewInv
      <3> QED  BY <2>1, <3>1, <3>2, <3>3
    <2>3. ASSUME NEW v \in Workers, pc'[v] = "log review"
          PROVE  records'[Key(v)'].review = Asked(v)'.decision
      <3>1. v = w
        BY <1>9, <2>3, Alone
      <3> QED  BY <1>5, <1>7, <3>1
    <2>4. ASSUME crashes = 0, NEW k \in Keys
          PROVE  records'[k].review = LastDecision(k)' \/ \E v \in Workers : LogsReview(v, k)'
      <3>1. CASE k = key
        <4>1. pc'[w] = "log review"
          BY <1>9, Alone
        <4> QED  BY <1>7, <3>1, <4>1 DEF LogsReview
      <3>2. CASE k # key
        <4>1. records[k].review = LastDecision(k)
          BY <1>14, <2>1, <2>4 DEF ReviewInv, LogsReview
        <4>2. LastDecision(k)' = LastDecision(k)
          BY <1>1, SameLog
        <4> QED  BY <1>5, <3>2, <4>1, <4>2
      <3> QED  BY <3>1, <3>2
    <2> QED  BY <1>11, <2>2, <2>3, <2>4 DEF ReviewInv
  <1> QED  BY <1>10, <1>11, <1>12, <1>13, <1>15, <1>16 DEF IInv

LEMMA LogReviewStep ==
    ASSUME IInv, NEW w \in Workers, LogReview(w)
    PROVE  IInv'
  <1> SUFFICES ASSUME NEW d, d = draft[w], NEW key, key = Key(w),
                      NEW decision, decision = Asked(w).decision,
                      NEW e, e = [key |-> key, decision |-> decision]
               PROVE  IInv'
    OBVIOUS
  <1>1. /\ pc[w] = "log review" /\ Proceed(w, "log", d)
        /\ reviews' = Append(reviews, e)
        /\ UNCHANGED <<lock, workspace, export, records, runs, latest, latestRun>>
    BY DEF LogReview
  <1>2. Fits("log", call[w], d) /\ ~UnderLock("log")
    BY <1>1, Standing DEF Fits, UnderLock, Uncommitted, Phases, Before, After, Deciding
  <1>3. key \in Keys /\ decision \in Decisions
    <2>1. key \in Keys /\ Asked(w) \in Calls
      BY <1>1, Asks DEF IInv, UnderLock, Deciding
    <2>2. Asked(w).op = "review"
      BY <1>1, Standing DEF Fits, Asked, Deciding
    <2> QED  BY <2>1, <2>2, CallFields
  <1>4. e \in Reviews /\ e.key = key /\ e.decision = decision
    BY <1>3 DEF Reviews
  <1>5. Committed(key)
    BY <1>1, Standing DEF Held, UnderLock, Deciding
  <1>6. UnderLock(pc[w])
    BY <1>1 DEF UnderLock, Deciding
  <1>7. Writing(w, "log", d)
    BY <1>1, <1>2, <1>6, WriterMoves
  <1>8. WorkersTyped' /\ LockInv' /\ HeldInv'
    BY <1>7, WriterKeeps
  <1>9. UNCHANGED <<path, source, dashboard, crashes>>
    BY <1>7 DEF Writing, Moves
  <1>10. reviews \in Seq(Reviews)
    BY DEF IInv, FilesTyped
  <1>11. FilesTyped'
    <2>1. reviews' \in Seq(Reviews)
      BY <1>1, <1>4, <1>10, Appended
    <2> QED  BY <1>1, <1>9, <2>1 DEF IInv, FilesTyped
  <1>12. WholeInv'
    BY <1>1, <1>9, SamePath DEF IInv, WholeInv, Whole, Committed
  <1>13. \A v \in Workers : pc[v] # "run" /\ pc'[v] # "log review"
    BY <1>1, <1>7, Alone
  <1>14. RunInv'
    BY <1>1, <1>9, <1>13, RunsKept DEF SavesRun
  <1>15. ReviewInv'
    <2>1. ReviewInv
      BY DEF IInv
    <2>2. ASSUME NEW i \in DOMAIN reviews' PROVE Committed(reviews[i].key)'
      <3>1. /\ DOMAIN reviews = 1..Len(reviews) /\ DOMAIN reviews' = 1..(Len(reviews) + 1)
            /\ \A j \in 1..Len(reviews) : reviews'[j] = reviews[j]
            /\ reviews'[Len(reviews) + 1] = e /\ Len(reviews) \in Nat
        <4>1. /\ DOMAIN reviews = 1..Len(reviews) /\ Len(reviews) \in Nat
              /\ DOMAIN Append(reviews, e) = 1..(Len(reviews) + 1)
              /\ \A j \in 1..Len(reviews) : Append(reviews, e)[j] = reviews[j]
              /\ Append(reviews, e)[Len(reviews) + 1] = e
          BY <1>4, <1>10, Appended
        <4> QED  BY <1>1, <4>1, Zenon
      <3>2. CASE i = Len(reviews) + 1
        BY <1>1, <1>4, <1>5, <3>1, <3>2 DEF Committed
      <3>3. CASE i # Len(reviews) + 1
        <4>1. i \in DOMAIN reviews
          BY <2>2, <3>1, <3>3
        <4> QED  BY <1>1, <2>1, <3>1, <4>1 DEF ReviewInv, Committed
      <3> QED  BY <3>2, <3>3
    <2>3. ASSUME crashes = 0, NEW k \in Keys PROVE records'[k].review = LastDecision(k)'
      <3>1. LastDecision(k)' = IF key = k THEN decision ELSE LastDecision(k)
        BY <1>1, <1>4, LastAppended DEF IInv
      <3>2. CASE k = key
        BY <1>1, <2>1, <3>1, <3>2 DEF ReviewInv
      <3>3. CASE k # key
        <4>1. \A v \in Workers : ~LogsReview(v, k)
          BY <1>7, <3>3, Alone DEF LogsReview
        <4> QED  BY <1>1, <2>1, <2>3, <3>1, <3>3, <4>1 DEF ReviewInv
      <3> QED  BY <3>2, <3>3
    <2> QED  BY <1>9, <1>13, <2>2, <2>3 DEF ReviewInv
  <1> QED  BY <1>8, <1>9, <1>11, <1>12, <1>14, <1>15 DEF IInv

-----------------------------------------------------------------------------
(* Edits and crashes                                                       *)

(* What is said of moments of the past stays true.                         *)
LEMMA History ==
    ASSUME NEW s \in Seq(Versions), NEW v \in Versions, NEW t, t = Append(s, v)
    PROVE  /\ t \in Seq(Versions) /\ Len(t) = Len(s) + 1 /\ Len(s) \in Nat
           /\ \A b, m : Kept(s, b, m) => Kept(t, b, m)
           /\ \A x, n, app : \A c \in 1..Len(s) :
                 Made(s, x, n, c, app) => Made(t, x, n, c, app)
  <1>1. /\ t \in Seq(Versions) /\ Len(t) = Len(s) + 1 /\ Len(s) \in Nat
        /\ \A i \in 1..Len(s) : t[i] = s[i]
    OBVIOUS
  <1>2. ASSUME NEW b, NEW m, Kept(s, b, m) PROVE Kept(t, b, m)
    <2>1. b \in 1..Len(s) /\ m \in b..Len(s)
      BY <1>2 DEF Kept
    <2>2. b \in 1..Len(t) /\ m \in b..Len(t)
      BY <1>1, <2>1
    <2>3. ASSUME NEW j \in b + 1..Len(s), s[j] = s[b]
          PROVE  j \in b + 1..Len(t) /\ t[j] = t[b]
      <3>1. j \in 1..Len(s) /\ j \in b + 1..Len(t)
        BY <1>1, <2>1
      <3> QED  BY <1>1, <2>1, <2>3, <3>1
    <2> QED  BY <1>2, <2>2, <2>3 DEF Kept
  <1>3. ASSUME NEW x, NEW n, NEW app, NEW c \in 1..Len(s), Made(s, x, n, c, app)
        PROVE  Made(t, x, n, c, app)
    BY <1>1, <1>3 DEF Made
  <1> HIDE DEF Kept, Made
  <1> QED  BY <1>1, <1>2, <1>3

LEMMA EditStep ==
    ASSUME IInv, Edit
    PROVE  IInv'
  <1>1. PICK edited \in Versions : source' = Append(source, edited)
    BY DEF Edit
  <1>2. UNCHANGED <<path, dashboard, lock, workspace, export, records, runs, latest, latestRun,
                    reviews, pc, call, draft, requests, crashes>>
    BY DEF Edit, files
  <1>10. source \in Seq(Versions)
    BY DEF IInv, FilesTyped
  <1>11. /\ source' \in Seq(Versions) /\ Len(source') = Len(source) + 1 /\ Len(source) \in Nat
         /\ \A b, m : Kept(source, b, m) => Kept(source', b, m)
         /\ \A x, n, app : \A c \in 1..Len(source) :
               Made(source, x, n, c, app) => Made(source', x, n, c, app)
    BY <1>1, <1>10, History
  <1>3. FilesTyped' /\ WorkersTyped'
    BY <1>2, <1>11, SamePath DEF IInv, FilesTyped, WorkersTyped
  <1>4. ASSUME NEW w \in Workers, UnderLock(pc[w])
        PROVE  Held(pc[w], Number(w), Key(w), draft[w])'
    <2> SUFFICES ASSUME NEW d, d = draft[w], NEW p, p = pc[w], NEW n, n = Number(w),
                        NEW k, k = Key(w)
                 PROVE  Held(p, n, k, d)'
      BY <1>2 DEF Number, Key, Asked
    <2>1. Held(p, n, k, d) /\ d \in Drafts
      BY <1>4, Standing
    <2>2. d.before \in Nat /\ d.copied \in Nat /\ d.app \in Nat
      BY <2>1 DEF Drafts
    <2>3. ASSUME NEW m \in Nat, NEW b \in Nat, m \in b..Len(source)
          PROVE  m \in b..Len(source')
      BY <1>11, <2>3
    <2>4. ASSUME NEW b, NEW m, Kept(source, b, m) PROVE m \in 1..Len(source)
      BY <1>11, <2>4 DEF Kept
    <2>5. p \in {"ask", "copy", "patch", "test", "compare", "index"} =>
              d.before \in 1..Len(source')
      BY <2>1, <2>2, <2>3 DEF Held
    <2>6. p = "patch" =>
              /\ d.copied \in d.before..Len(source')
              /\ Made(source', workspace[k], n, d.copied, d.copied)
      <3>1. p = "patch" => /\ d.copied \in d.before..Len(source) /\ d.before \in 1..Len(source)
                           /\ Made(source, workspace[k], n, d.copied, d.copied)
        BY <2>1 DEF Held
      <3>2. p = "patch" => d.copied \in 1..Len(source) /\ d.copied \in d.before..Len(source')
        BY <1>11, <2>2, <3>1
      <3> QED  BY <1>11, <3>1, <3>2
    <2>7. p \in {"test", "compare"} => d.app \in d.before..Len(source')
      BY <2>1, <2>2, <2>3 DEF Held
    <2>8. p \in {"test", "compare"} /\ On("copy") =>
              /\ d.copied \in d.before..d.app
              /\ Made(source', workspace[k], n, d.copied, d.app)
      <3>1. p \in {"test", "compare"} /\ On("copy") =>
                /\ d.before \in 1..Len(source) /\ d.app \in d.before..Len(source)
                /\ d.copied \in d.before..d.app
                /\ Made(source, workspace[k], n, d.copied, d.app)
        BY <2>1 DEF Held
      <3>2. p \in {"test", "compare"} /\ On("copy") => d.copied \in 1..Len(source)
        BY <1>11, <2>2, <3>1
      <3> QED  BY <1>11, <3>1, <3>2
    <2>9. p \in {"export", "commit"} => Kept(source', d.before, d.app)
      BY <1>11, <2>1 DEF Held
    <2>10. p \in {"export", "commit"} /\ On("copy") =>
              Kept(source', d.before, d.copied) /\ Made(source', workspace[k], n, d.copied, d.app)
      <3>1. p \in {"export", "commit"} /\ On("copy") =>
                Kept(source, d.before, d.copied) /\ Made(source, workspace[k], n, d.copied, d.app)
        BY <2>1 DEF Held
      <3> QED  BY <1>11, <2>4, <3>1
    <2>11. /\ Uncommitted(p) => ~Committed(k)
           /\ p \in After \cup Deciding => Committed(k)
           /\ p \in {"compare", "export", "commit"} /\ On("copy") => n \in workspace[k].state
           /\ p = "commit" /\ On("copy") => export[k] = Archive(n, d.app)
           /\ p = "run" => records[k].attempt = n
           /\ p \in {"point", "point run"} /\ On("run") => [key |-> k, attempt |-> n] \in runs
      BY <2>1 DEF Held
    <2>12. On("copy")' = On("copy") /\ On("run")' = On("run") /\ Committed(k)' = Committed(k)
           /\ Uncommitted(p)' = Uncommitted(p)
      BY <1>2, SamePath DEF Committed
    <2> QED  BY <1>2, <2>5, <2>6, <2>7, <2>8, <2>9, <2>10, <2>11, <2>12 DEF Held
  <1>5. LockInv' /\ HeldInv'
    BY <1>2, <1>4, SamePath DEF IInv, LockInv, HeldInv
  <1>6. WholeInv'
    <2>1. ASSUME NEW k \in Keys, Committed(k)
          PROVE  /\ Kept(source', records[k].before, records[k].app)
                 /\ On("copy") => WholeOf(source', records[k], workspace[k], export[k])
      <3>1. /\ Kept(source, records[k].before, records[k].app)
            /\ On("copy") => WholeOf(source, records[k], workspace[k], export[k])
        BY <2>1 DEF IInv, WholeInv, Whole
      <3>2. ASSUME NEW b, NEW m, Kept(source, b, m) PROVE m \in 1..Len(source)
        BY <1>11, <3>2 DEF Kept
      <3> QED  BY <1>11, <3>1, <3>2 DEF WholeOf
    <2>2. ASSUME NEW k \in Keys PROVE Whole(k)'
      BY <1>2, <2>1, SamePath DEF Whole, Committed
    <2> QED  BY <2>2 DEF WholeInv
  <1>7. \A v \in Workers : Asked(v)' = Asked(v) /\ Key(v)' = Key(v)
    BY <1>2 DEF Asked, Key
  <1>8. RunInv'
    BY <1>2, <1>7, RunsKept DEF SavesRun
  <1>9. ReviewInv'
    BY <1>2, <1>7, ReviewsKept DEF Committed
  <1> QED  BY <1>2, <1>3, <1>5, <1>6, <1>8, <1>9 DEF IInv

LEMMA CrashStep ==
    ASSUME IInv, Crash
    PROVE  IInv'
  <1>1. /\ UNCHANGED <<path, source, dashboard, workspace, export, records, runs, latest,
                       latestRun, reviews, requests>>
        /\ lock' = Nobody /\ crashes' = crashes + 1 /\ crashes \in Nat
        /\ pc' = [w \in Workers |-> "idle"] /\ call' = [w \in Workers |-> NoCall]
        /\ draft' = [w \in Workers |-> NoDraft]
    BY DEF Crash, files, IInv
  <1>2. crashes' \in Nat /\ crashes' # 0
    BY <1>1
  <1>3. FilesTyped'
    BY <1>1 DEF IInv, FilesTyped
  <1>4. Fits("idle", NoCall, NoDraft) /\ ~UnderLock("idle")
    BY DEF Fits, Phases, Before, After, Deciding, NoDraft, Draft, Drafts, UnderLock, Uncommitted
  <1>5. WorkersTyped'
    <2>1. \A w \in Workers : Fits(pc'[w], call'[w], draft'[w])
      BY <1>1, <1>4
    <2>2. /\ pc' \in [Workers -> Phases] /\ call' \in [Workers -> Numbered \cup {NoCall}]
          /\ draft' \in [Workers -> Drafts]
      BY <1>1, <1>4 DEF Fits
    <2> QED  BY <1>1, <2>1, <2>2, SamePath DEF WorkersTyped, IInv
  <1>6. LockInv' /\ HeldInv'
    BY <1>1, <1>4, SamePath DEF LockInv, HeldInv
  <1>7. WholeInv'
    BY <1>1, SamePath DEF IInv, WholeInv, Whole, Committed
  <1>8. RunInv'
    BY <1>1, <1>2 DEF IInv, RunInv, Committed
  <1>9. ReviewInv'
    BY <1>1, <1>2 DEF IInv, ReviewInv, Committed
  <1> QED  BY <1>2, <1>3, <1>5, <1>6, <1>7, <1>8, <1>9 DEF IInv

-----------------------------------------------------------------------------
(* The services                                                            *)

(* A step of a worker of any of the services                               *)
Serves(w) ==
    \/ \E c \in Calls : Accept(w, c)
    \/ Making(w) \/ Providing(w) \/ Reviewing(w) \/ First!Index(w)

LEMMA ServeStep ==
    ASSUME IInv, Environment \/ \E w \in Workers : Serves(w)
    PROVE  IInv'
  <1>1. CASE Environment
    BY <1>1, EditStep, CrashStep DEF Environment
  <1>2. ASSUME NEW w \in Workers, Serves(w) PROVE IInv'
    <2>1. CASE \E c \in Calls : Accept(w, c)
      BY <2>1, AcceptStep
    <2>2. CASE Making(w)
      BY <2>2, QualityGateStep, AcquireStep, DigestStep, CopyStep, PatchStep, TestStep,
         CompareStep, ExportStep, CommitStep, PointStep, LogStep DEF Making
    <2>3. CASE Providing(w)
      BY <2>3, ReadSettingsStep, AskStep, SaveRunStep, PointRunStep, SaveSettingsStep, ProbeStep
         DEF Providing
    <2>4. CASE Reviewing(w)
      BY <2>4, LoadStep, SaveReviewStep, LogReviewStep DEF Reviewing
    <2>5. CASE First!Index(w)
      BY <2>5, IndexStep
    <2> QED  BY <1>2, <2>1, <2>2, <2>3, <2>4, <2>5 DEF Serves
  <1> QED  BY <1>1, <1>2

LEMMA StutterStep ==
    ASSUME IInv, UNCHANGED vars
    PROVE  IInv'
  <1>1. UNCHANGED <<path, source, dashboard, lock, workspace, export, records, runs, latest,
                    latestRun, reviews, pc, call, draft, requests, crashes>>
    BY DEF vars, files, counters
  <1>2. FilesTyped' /\ WorkersTyped' /\ LockInv'
    BY <1>1, SamePath DEF IInv, FilesTyped, WorkersTyped, LockInv
  <1>3. \A v \in Workers : Number(v)' = Number(v) /\ Asked(v)' = Asked(v) /\ Key(v)' = Key(v)
    BY <1>1 DEF Number, Asked, Key
  <1>4. HeldInv'
    BY <1>1, <1>3, SamePath, SameHeld DEF IInv, HeldInv
  <1>5. WholeInv'
    BY <1>1, SamePath DEF IInv, WholeInv, Whole, Committed
  <1>6. RunInv'
    BY <1>1, <1>3, RunsKept DEF SavesRun
  <1>7. ReviewInv'
    BY <1>1, <1>3, ReviewsKept DEF Committed
  <1> QED  BY <1>1, <1>2, <1>4, <1>5, <1>6, <1>7 DEF IInv

LEMMA InitInv ==
    ASSUME NEW phases \in Services, Init(phases)
    PROVE  IInv
  <1>1. FilesTyped
    <2>1. source \in Seq(Versions) /\ Len(source) >= 1
      BY DEF Init
    <2>2. NoWork \in Works /\ NoArchive \in Archives /\ NoRecord \in Records
      BY DEF NoWork, Work, Works, NoArchive, Archive, Archives, NoRecord, Record, Records
    <2> QED  BY <2>1, <2>2 DEF Init, FilesTyped, Settings
  <1>2. Fits("idle", NoCall, NoDraft) /\ ~UnderLock("idle")
    BY DEF Fits, Phases, Before, After, Deciding, NoDraft, Draft, Drafts, UnderLock, Uncommitted
  <1>3. WorkersTyped
    <2>1. /\ pc \in [Workers -> Phases] /\ call \in [Workers -> Numbered \cup {NoCall}]
          /\ draft \in [Workers -> Drafts]
      BY <1>2 DEF Init, Fits
    <2>2. \A w \in Workers : Fits(pc[w], call[w], draft[w])
      BY <1>2 DEF Init
    <2>3. requests \in 0..MaxRequests /\ lock \in Workers \cup {Nobody}
      BY BoundsAssumption DEF Init
    <2> QED  BY <2>1, <2>2, <2>3 DEF WorkersTyped
  <1>4. LockInv /\ HeldInv
    BY <1>2 DEF Init, LockInv, HeldInv
  <1>5. \A k \in Keys : ~Committed(k) /\ records[k].review = "PENDING"
    BY DEF Init, NoRecord, Record, Committed
  <1>6. WholeInv
    BY <1>5 DEF WholeInv, Whole
  <1>7. RunInv
    BY <1>5 DEF Init, RunInv
  <1>8. ReviewInv
    <2>1. DOMAIN reviews = {}
      BY DEF Init
    <2>2. \A k \in Keys : LastDecision(k) = "PENDING"
      BY <2>1, NoneReviewed
    <2>3. \A w \in Workers : pc[w] # "log review"
      BY DEF Init
    <2> QED  BY <1>5, <2>1, <2>2, <2>3 DEF ReviewInv
  <1> QED  BY <1>1, <1>3, <1>4, <1>6, <1>7, <1>8 DEF IInv, Init

(* The instances take the steps of CandidateGeneration.                    *)
LEMMA PipelineServes ==
    ASSUME NEW w \in Workers, Pipeline!Request(w) \/ Pipeline!Generate(w) \/ Pipeline!Review(w)
    PROVE  Serves(w)
  <1> USE DEF Now, Archive, Pipeline!Generation!Now, Pipeline!Generation!Archive,
         Reads, Proceed, Then, Check, Answer, Released, Raises, Writes, Draft, Work,
         Record, Key, Asked, Number, LockFree, Existing, SourceUnchanged, NoCall, NoDraft,
         None, Nobody, counters, files, FirstPhase, Pipeline!Generation!Reads,
         Pipeline!Generation!Proceed, Pipeline!Generation!Then, Pipeline!Generation!Check,
         Pipeline!Generation!Answer, Pipeline!Generation!Released,
         Pipeline!Generation!Raises, Pipeline!Generation!Writes, Pipeline!Generation!Draft,
         Pipeline!Generation!Work, Pipeline!Generation!Record, Pipeline!Generation!Key,
         Pipeline!Generation!Asked, Pipeline!Generation!Number,
         Pipeline!Generation!LockFree, Pipeline!Generation!Existing,
         Pipeline!Generation!SourceUnchanged, Pipeline!Generation!NoCall,
         Pipeline!Generation!NoDraft, Pipeline!Generation!None, Pipeline!Generation!Nobody,
         Pipeline!Generation!counters, Pipeline!Generation!files,
         Pipeline!Generation!FirstPhase
  <1>1. Pipeline!Generation!QualityGate(w) => QualityGate(w)
    BY DEF Pipeline!Generation!QualityGate, QualityGate
  <1>2. Pipeline!Generation!Acquire(w) => Acquire(w)
    BY DEF Pipeline!Generation!Acquire, Acquire
  <1>3. Pipeline!Generation!Digest(w) => Digest(w)
    BY DEF Pipeline!Generation!Digest, Digest
  <1>4. Pipeline!Generation!Copy(w) => Copy(w)
    BY DEF Pipeline!Generation!Copy, Copy
  <1>5. Pipeline!Generation!Patch(w) => Patch(w)
    BY DEF Pipeline!Generation!Patch, Patch
  <1>6. Pipeline!Generation!Test(w) => Test(w)
    BY DEF Pipeline!Generation!Test, Test
  <1>7. Pipeline!Generation!Compare(w) => Compare(w)
    BY DEF Pipeline!Generation!Compare, Compare
  <1>8. Pipeline!Generation!Export(w) => Export(w)
    BY DEF Pipeline!Generation!Export, Export
  <1>9. Pipeline!Generation!Commit(w) => Commit(w)
    BY DEF Pipeline!Generation!Commit, Commit
  <1>10. Pipeline!Generation!Point(w) => Point(w)
    BY DEF Pipeline!Generation!Point, Point
  <1>11. Pipeline!Generation!Log(w) => Log(w)
    BY DEF Pipeline!Generation!Log, Log
  <1>12. Pipeline!Generation!Load(w) => Load(w)
    BY DEF Pipeline!Generation!Load, Load
  <1>13. Pipeline!Generation!SaveReview(w) => SaveReview(w)
    BY DEF Pipeline!Generation!SaveReview, SaveReview
  <1>14. Pipeline!Generation!LogReview(w) => LogReview(w)
    BY DEF Pipeline!Generation!LogReview, LogReview
  <1>15. ASSUME NEW c \in Pipeline!Generation!Calls, Pipeline!Generation!Accept(w, c)
        PROVE  c \in Calls /\ Accept(w, c)
    BY <1>15 DEF Pipeline!Generation!Accept, Accept, Pipeline!Generation!Calls, Calls,
       Pipeline!Generation!Settings, Settings, Pipeline!Generation!Decisions, Decisions
  <1> QED  BY <1>1, <1>2, <1>3, <1>4, <1>5, <1>6, <1>7, <1>8, <1>9, <1>10, <1>11, <1>12, <1>13,
              <1>14, <1>15 DEF Pipeline!Request, Pipeline!Generate, Pipeline!Review,
              Pipeline!Generation!Making, Pipeline!Generation!Reviewing, Making, Reviewing,
              Serves

LEMMA PipelineEnvironment ==
    ASSUME Pipeline!Generation!Environment
    PROVE  Environment
  BY DEF Pipeline!Generation!Environment, Environment, Pipeline!Generation!Edit, Edit,
         Pipeline!Generation!Crash, Crash, Pipeline!Generation!NoCall, NoCall,
         Pipeline!Generation!NoDraft, NoDraft, Pipeline!Generation!Draft, Draft,
         Pipeline!Generation!None, None, Pipeline!Generation!Nobody, Nobody,
         Pipeline!Generation!files, files, Pipeline!Generation!Now, Now

LEMMA FirstServes ==
    ASSUME NEW w \in Workers, First!Request(w) \/ First!Execute(w)
    PROVE  Serves(w)
  <1> USE DEF Now, Archive, First!Generation!Now, First!Generation!Archive,
         Reads, Proceed, Then, Check, Answer, Released, Raises, Writes, Draft, Work,
         Record, Key, Asked, Number, LockFree, Existing, SourceUnchanged, NoCall, NoDraft,
         None, Nobody, counters, files, FirstPhase, First!Generation!Reads,
         First!Generation!Proceed, First!Generation!Then, First!Generation!Check,
         First!Generation!Answer, First!Generation!Released, First!Generation!Raises,
         First!Generation!Writes, First!Generation!Draft, First!Generation!Work,
         First!Generation!Record, First!Generation!Key, First!Generation!Asked,
         First!Generation!Number, First!Generation!LockFree, First!Generation!Existing,
         First!Generation!SourceUnchanged, First!Generation!NoCall,
         First!Generation!NoDraft, First!Generation!None, First!Generation!Nobody,
         First!Generation!counters, First!Generation!files, First!Generation!FirstPhase
  <1>1. First!Generation!Acquire(w) => Acquire(w)
    BY DEF First!Generation!Acquire, Acquire
  <1>2. First!Generation!QualityGate(w) => QualityGate(w)
    BY DEF First!Generation!QualityGate, QualityGate
  <1>3. First!Generation!Digest(w) => Digest(w)
    BY DEF First!Generation!Digest, Digest
  <1>4. First!Generation!Compare(w) => Compare(w)
    BY DEF First!Generation!Compare, Compare
  <1>5. First!Generation!Commit(w) => Commit(w)
    BY DEF First!Generation!Commit, Commit
  <1>6. First!Generation!Point(w) => Point(w)
    BY DEF First!Generation!Point, Point
  <1>7. First!Generation!Log(w) => Log(w)
    BY DEF First!Generation!Log, Log
  <1>8. ASSUME NEW c \in First!Generation!Calls, First!Generation!Accept(w, c)
        PROVE  c \in Calls /\ Accept(w, c)
    BY <1>8 DEF First!Generation!Accept, Accept, First!Generation!Calls, Calls,
       First!Generation!Settings, Settings, First!Generation!Decisions, Decisions
  <1> QED  BY <1>1, <1>2, <1>3, <1>4, <1>5, <1>6, <1>7, <1>8 DEF First!Request, First!Execute,
           First!SelectTool, Making, Serves

LEMMA FirstEnvironment ==
    ASSUME First!Generation!Environment
    PROVE  Environment
  BY DEF First!Generation!Environment, Environment, First!Generation!Edit, Edit,
         First!Generation!Crash, Crash, First!Generation!NoCall, NoCall,
         First!Generation!NoDraft, NoDraft, First!Generation!Draft, Draft,
         First!Generation!None, None, First!Generation!Nobody, Nobody, First!Generation!files,
         files, First!Generation!Now, Now

LEMMA PipelineStarts == Pipeline!Init => Init(PipelinePath)
  BY DEF Pipeline!Init, Pipeline!Generation!Init, Init, PipelinePath,
         Pipeline!Generation!NoWork, NoWork, Pipeline!Generation!Work, Work,
         Pipeline!Generation!NoRecord, NoRecord, Pipeline!Generation!Record, Record,
         Pipeline!Generation!None, None, Pipeline!Generation!Nobody, Nobody,
         Pipeline!Generation!NoCall, NoCall, Pipeline!Generation!NoDraft, NoDraft,
         Pipeline!Generation!Draft, Draft, Pipeline!Generation!Ids, Ids,
         Pipeline!Generation!NoArchive, NoArchive, Pipeline!Generation!Archive, Archive

LEMMA FirstStarts == First!Init => Init(OperationPath)
  BY DEF First!Init, First!Generation!Init, Init, OperationPath, First!Generation!NoWork,
         NoWork, First!Generation!Work, Work, First!Generation!NoRecord, NoRecord,
         First!Generation!Record, Record, First!Generation!None, None, First!Generation!Nobody,
         Nobody, First!Generation!NoCall, NoCall, First!Generation!NoDraft, NoDraft,
         First!Generation!Draft, Draft, First!Generation!Ids, Ids,
         First!Generation!NoArchive, NoArchive, First!Generation!Archive, Archive

LEMMA SameVars == Pipeline!Generation!vars = vars /\ First!Generation!vars = vars
  BY DEF Pipeline!Generation!vars, First!Generation!vars, vars, Pipeline!Generation!files,
         First!Generation!files, files, Pipeline!Generation!counters, First!Generation!counters,
         counters

LEMMA ProviderServes ==
    ASSUME Next
    PROVE  Environment \/ \E w \in Workers : Serves(w)
  BY DEF Next, Request, Serves

PipelineSpec == Pipeline!Init /\ [][Pipeline!Next]_vars

OperationSpec == First!Init /\ [][First!Next]_vars

(* The provider, the template pipeline or the first read-only operation    *)
AnyService == Spec \/ PipelineSpec \/ OperationSpec

LEMMA ServiceInv == AnyService => []IInv
  <1>1. Spec => []IInv
    <2>1. Init(ProviderPath) => IInv
      BY InitInv DEF Services
    <2>2. IInv /\ [Next]_vars => IInv'
      BY ProviderServes, ServeStep, StutterStep
    <2> QED  BY <2>1, <2>2, PTL DEF Spec
  <1>2. PipelineSpec => []IInv
    <2>1. Pipeline!Init => IInv
      BY PipelineStarts, InitInv DEF Services
    <2>2. IInv /\ [Pipeline!Next]_vars => IInv'
      BY PipelineServes, PipelineEnvironment, ServeStep, StutterStep DEF Pipeline!Next
    <2> QED  BY <2>1, <2>2, PTL DEF PipelineSpec
  <1>3. OperationSpec => []IInv
    <2>1. First!Init => IInv
      BY FirstStarts, InitInv DEF Services
    <2>2. IInv /\ [First!Next]_vars => IInv'
      BY FirstServes, FirstEnvironment, ServeStep, StutterStep DEF First!Next
    <2> QED  BY <2>1, <2>2, PTL DEF OperationSpec
  <1> QED  BY <1>1, <1>2, <1>3, PTL DEF AnyService

(* Files and workers keep their types, and no two requests are in a        *)
(* section of _LOCK at once, on whichever path a generation leaves it.     *)
TypeOK == FilesTyped /\ WorkersTyped /\ LockInv

THEOREM TypeCorrect == AnyService => []TypeOK
  <1>1. IInv => TypeOK
    BY DEF IInv, TypeOK
  <1> QED  BY <1>1, ServiceInv, PTL

(* The code, the archive and the manifest of a committed candidate are one  *)
(* attempt's, and so is its frontend when the source has one, whatever      *)
(* attempts under the same key failed or crashed before and left behind     *)
(* (generate, _copytree_filtered).                                          *)
THEOREM CandidatesAreWhole == AnyService => []CandidateIsWhole
  <1>1. ASSUME IInv, On("copy"), NEW k \in Keys, Committed(k)
        PROVE  WholeOf(source, records[k], workspace[k], export[k])
    BY <1>1 DEF IInv, WholeInv, Whole
  <1>2. IInv => CandidateIsWhole
    BY <1>1 DEF CandidateIsWhole, WholeOf, Made
  <1> QED  BY <1>2, ServiceInv, PTL

(* Copy and application text of a committed candidate have the contents its *)
(* digest is of, however often the source is edited while it is read: the   *)
(* second digest is compared with the first (generate).  Excepted is a      *)
(* source that was edited and put back, which the digests cannot tell.      *)
THEOREM CandidatesAreOfOneSource == AnyService => []OneSource
  <1>1. ASSUME NEW b, NEW m, Kept(source, b, m)
        PROVE  Returned(b) \/ source[m] = source[b]
    BY <1>1 DEF Kept, Returned, Now
  <1>2. ASSUME IInv, NEW k \in Keys, Committed(k), NEW b, b = records[k].before
        PROVE  \/ Returned(b)
               \/ /\ source[records[k].app] = source[b]
                  /\ On("copy") => source[workspace[k].copied] = source[b]
    <2>1. /\ Kept(source, b, records[k].app)
          /\ On("copy") => Kept(source, b, workspace[k].copied)
      BY <1>2 DEF IInv, WholeInv, Whole, WholeOf
    <2> QED  BY <1>1, <2>1
  <1>3. IInv => OneSource
    BY <1>2 DEF OneSource
  <1> QED  BY <1>3, ServiceInv, PTL

(* Pointers and run records are of candidates that exist, whenever the      *)
(* server dies; and a candidate has its run record when the lock is free    *)
(* and the server never died (generate).                                    *)
THEOREM PointersLead == AnyService => []LatestResolves
  <1>1. ASSUME IInv PROVE LatestResolves
    <2>1. ASSUME On("run"), lock = Nobody, crashes = 0, NEW k \in Keys, Committed(k)
          PROVE  HasRun(k)
      <3>1. \A w \in Workers : pc[w] # "run"
        BY <1>1, <2>1, Standing, NobodyAssumption DEF UnderLock, After
      <3> QED  BY <1>1, <2>1, <3>1 DEF IInv, RunInv, SavesRun
    <2> QED  BY <1>1, <2>1 DEF IInv, RunInv, LatestResolves, HasRun
  <1> QED  BY <1>1, ServiceInv, PTL

(* The manifest shows the decision of the last review in the log, when the  *)
(* lock is free and the server never died between the two (review).         *)
THEOREM ReviewsAreLogged == AnyService => []ReviewLogged
  <1>1. ASSUME IInv PROVE ReviewLogged
    <2>1. ASSUME lock = Nobody, crashes = 0, NEW k \in Keys
          PROVE  records[k].review = LastDecision(k)
      <3>1. \A w \in Workers : pc[w] # "log review"
        BY <1>1, <2>1, Standing, NobodyAssumption DEF UnderLock, Deciding
      <3> QED  BY <1>1, <2>1, <3>1 DEF IInv, ReviewInv, LogsReview
    <2> QED  BY <2>1 DEF ReviewLogged
  <1> QED  BY <1>1, ServiceInv, PTL
=============================================================================
