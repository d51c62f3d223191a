------------------------------ MODULE MCCompile ------------------------------
(***************************************************************************)
(* Small projects: a contract, a library it may import, and a library that *)
(* one imports.                                                            *)
(***************************************************************************)
EXTENDS Compile, TLC

(* App imports Base in one version and Math in the other; Base imports      *)
(* Math. Token stands alone, needs the newer compiler and may be broken.    *)
MCFiles == {"App", "Base", "Math", "Token"}
MCLibrary == {"Base", "Math"}
MCImportsOf ==
  [content \in {"app1", "app2", "base1", "math1", "math2", "token1", "token2"} |->
     CASE content = "app1" -> {"Base"}
       [] content \in {"app2", "base1"} -> {"Math"}
       [] OTHER -> {}]
MCVersionsOf ==
  [content \in DOMAIN MCImportsOf |->
     CASE content \in {"app1", "app2"} -> {1}
       [] content \in {"token1", "token2"} -> {2}
       [] OTHER -> {1, 2}]
MCContractsOf ==
  [content \in DOMAIN MCImportsOf |->
     CASE content = "app2" -> {"C", "D"}
       [] content \in {"math2", "token2"} -> {}
       [] OTHER -> {"C"}]

Solc(version, optimizer) == [version |-> version, optimizer |-> optimizer]
Config(optimizer, overrides) ==
  [compilers |-> {Solc(1, FALSE), Solc(2, optimizer)}, overrides |-> overrides]

(* Without the optimizer; and with it, Math by the older compiler.          *)
MCProjectConfigs == {Config(FALSE, <<>>), Config(TRUE, "Math" :> Solc(1, TRUE))}

Tree(app, math, token) == [f \in MCFiles |->
  CASE f = "App" -> app [] f = "Base" -> "base1" [] f = "Math" -> math [] OTHER -> token]
MCTrees ==
  {Tree("app1", "math1", "token1"), Tree("app2", "math2", "token1"),
   Tree("app1", "math2", "token1"), Tree("app2", "math1", "token2"),
   [Tree("app2", "math1", Absent) EXCEPT !["Base"] = Absent]}

MCInit ==
  /\ CompileInit
  /\ sources = Tree("app1", "math1", "token1")
  /\ config = Config(FALSE, <<>>)
MCCompileSpec == MCInit /\ [][CompileNext]_compileVars
==============================================================================
