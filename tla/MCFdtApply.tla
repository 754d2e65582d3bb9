------------------------------ MODULE MCFdtApply ------------------------------
(***************************************************************************)
(* Three base trees and seven overlays, all small; two of the overlays are *)
(* malformed, and no base takes them.                                      *)
(***************************************************************************)
EXTENDS FdtApply

\* Nodes, fragments, labels and properties.
N == <<110>>
M == <<109>>
C == <<99>>
D == <<100>>
E == <<101>>
F == <<102>>
G == <<103>>
X == <<120>>
Y == <<121>>
Long == <<111, 111, 111, 111, 111>>

La == <<221>>
Lb == <<222>>
Lk == <<223>>
Ls == <<224>>
Le == <<225>>
Lt == <<226>>

R == <<114>>
U == <<117>>
V == <<118>>
W == <<119>>

Nul == <<0>>
Dir(n) == <<Slash>> \o n

\* ":name:offset"
Spot(name, digit) == <<Colon>> \o name \o <<Colon, 48 + digit>> \o Nul

Node(n, steps) == <<BeginStep(n)>> \o steps \o <<EndStep>>
Prop(k, v) == <<PropStep(k, v)>>
Phandle(h) == Prop(S_phandle, Word(h))

BaseTree(symbols, h) ==
    Node(<<>>, Prop(V, <<5>>) \o
        Node(N, Phandle(1)) \o
        Node(M, Phandle(h) \o Prop(R, Word(1))) \o
        IF symbols THEN Node(S_symbols, Prop(La, Dir(N) \o Nul) \o Prop(Lb, Dir(M) \o Nul))
        ELSE Node(S_aliases, Prop(La, Dir(M) \o Nul)))

\* A node below a labelled one, with references in both directions and a label.
Add ==
    Node(<<>>,
        Node(F, Prop(S_target, Word(0)) \o
            Node(S_overlay, Prop(R, Word(7) \o Word(1)) \o
                Node(C, Phandle(1) \o Prop(U, Word(0)) \o Prop(V, <<9>>)))) \o
        Node(S_fixups,
            Prop(La, Dir(F) \o Spot(S_target, 0)) \o
            Prop(Lb, Dir(F) \o Dir(S_overlay) \o Dir(C) \o Spot(U, 0))) \o
        Node(S_local_fixups, Node(F, Node(S_overlay, Prop(R, Word(4))))) \o
        Node(S_symbols, Prop(Lk, Dir(F) \o Dir(S_overlay) \o Dir(C) \o Nul)))

\* A phandle for a node of the base, which has one, and references to it.
Rename ==
    Node(<<>>,
        Node(F, Prop(S_target_path, Dir(M) \o Nul) \o
            Node(S_overlay, Phandle(1) \o Prop(R, Word(1)) \o Prop(U, Word(1)))) \o
        Node(S_local_fixups, Node(F, Node(S_overlay, Prop(R, Word(0)) \o Prop(U, Word(0))))) \o
        Node(S_symbols, Prop(Ls, Dir(F) \o Dir(S_overlay) \o Nul)))

\* On top of what Add adds.
Stack ==
    Node(<<>>,
        Node(F, Prop(S_target, Word(0)) \o
            Node(S_overlay, Prop(V, <<3>>) \o Node(D, Phandle(2)))) \o
        Node(S_fixups, Prop(Lk, Dir(F) \o Spot(S_target, 0))) \o
        Node(S_symbols, Prop(Le, Dir(F) \o Dir(S_overlay) \o Dir(D) \o Nul)))

\* Two fragments, the second on top of the first.  The nodes and the label have
\* such sizes that making room for the symbol in front of them moves another
\* node to where the target was.
Two ==
    Node(<<>>,
        Node(F, Prop(S_target_path, Dir(<<>>) \o Nul) \o
            Node(S_overlay, Node(E, Phandle(3)) \o Node(X, Node(Y, <<>>)))) \o
        Node(G, Prop(S_target, Word(3)) \o
            Node(S_overlay, Prop(V, <<1>>) \o Node(Long, <<>>))) \o
        Node(S_local_fixups, Node(G, Prop(S_target, Word(0)))) \o
        Node(S_symbols, Prop(Lt, Dir(G) \o Dir(S_overlay) \o Dir(Long) \o Nul)))

\* The node Add adds, with a phandle of its own.
Again ==
    Node(<<>>,
        Node(F, Prop(S_target_path, Dir(N) \o Nul) \o
            Node(S_overlay, Prop(U, Word(1)) \o Node(C, Phandle(1) \o Prop(W, <<2>>)))) \o
        Node(S_local_fixups, Node(F, Node(S_overlay, Prop(U, Word(0))))))

\* A local fixup for a property that is not there.
Dangling ==
    Node(<<>>,
        Node(F, Prop(S_target_path, Dir(N) \o Nul) \o Node(S_overlay, Node(D, Phandle(1)))) \o
        Node(S_local_fixups, Node(F, Node(S_overlay, Node(D, Prop(U, Word(0)))))))

\* A second fragment without a target.
Adrift ==
    Node(<<>>,
        Node(F, Prop(S_target_path, Dir(N) \o Nul) \o Node(S_overlay, Phandle(1))) \o
        Node(G, Node(S_overlay, Prop(V, <<4>>))) \o
        Node(S_local_fixups, <<>>))

MCWriting(t) ==
    CASE t = "base" -> BaseTree(TRUE, 2)
      [] t = "unlabelled" -> BaseTree(FALSE, 2)
      [] t = "high" -> BaseTree(TRUE, 11)
      [] t = "add" -> Add
      [] t = "rename" -> Rename
      [] t = "stack" -> Stack
      [] t = "two" -> Two
      [] t = "again" -> Again
      [] t = "dangling" -> Dangling
      [] t = "adrift" -> Adrift

Val(p, k, v) == [path |-> p, key |-> k, val |-> v]
Ref(p, k, at, to) == [path |-> p, key |-> k, at |-> at, to |-> to]
Lab(l, to) == [label |-> l, to |-> to]

MCIntent(t) ==
    CASE t \in {"base", "high"} ->
             [nodes |-> {<<>>, <<N>>, <<M>>}, vals |-> {Val(<<>>, V, <<5>>)},
              refs |-> {Ref(<<M>>, R, 0, <<N>>)},
              labels |-> {Lab(La, <<N>>), Lab(Lb, <<M>>)}, aliases |-> {}]
      [] t = "unlabelled" ->
             [nodes |-> {<<>>, <<N>>, <<M>>, <<S_aliases>>},
              vals |-> {Val(<<>>, V, <<5>>), Val(<<S_aliases>>, La, Dir(M) \o Nul)},
              refs |-> {Ref(<<M>>, R, 0, <<N>>)},
              labels |-> {}, aliases |-> {Lab(La, <<M>>)}]
      [] t = "add" ->
             [nodes |-> {<<N, C>>}, vals |-> {Val(<<N, C>>, V, <<9>>)},
              refs |-> {Ref(<<N>>, R, 4, <<N, C>>), Ref(<<N, C>>, U, 0, <<M>>)},
              labels |-> {Lab(Lk, <<N, C>>)}, aliases |-> {}]
      [] t = "rename" ->
             [nodes |-> {}, vals |-> {},
              refs |-> {Ref(<<M>>, R, 0, <<M>>), Ref(<<M>>, U, 0, <<M>>)},
              labels |-> {Lab(Ls, <<M>>)}, aliases |-> {}]
      [] t = "stack" ->
             [nodes |-> {<<N, C, D>>}, vals |-> {Val(<<N, C>>, V, <<3>>)}, refs |-> {},
              labels |-> {Lab(Le, <<N, C, D>>)}, aliases |-> {}]
      [] t = "two" ->
             [nodes |-> {<<E>>, <<X>>, <<X, Y>>, <<E, Long>>}, vals |-> {Val(<<E>>, V, <<1>>)},
              refs |-> {}, labels |-> {Lab(Lt, <<E, Long>>)}, aliases |-> {}]
      [] t = "again" ->
             [nodes |-> {<<N, C>>}, vals |-> {Val(<<N, C>>, W, <<2>>)},
              refs |-> {Ref(<<N>>, U, 0, <<N, C>>)}, labels |-> {}, aliases |-> {}]
      [] t \in {"dangling", "adrift"} ->
             [nodes |-> {}, vals |-> {}, refs |-> {}, labels |-> {}, aliases |-> {}]

=============================================================================
