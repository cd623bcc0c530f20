----------------------------- MODULE MCIndexStore -----------------------------
(***************************************************************************)
(* Two modules with the same last name, so that an import of it has two    *)
(* candidates: proto, with a protocol P, and impl, with its implementation *)
(* I; and use, which calls f of "either", composes D of P, I and J, and    *)
(* has a test that requests a fixture.  The first two have a second text,  *)
(* and any file may go.                                                    *)
(***************************************************************************)
EXTENDS IndexStore

MCFiles == {"proto", "impl", "use"}

MCDotted == [f \in MCFiles |-> CASE f = "proto" -> <<"p", "m">>
                                 [] f = "impl" -> <<"q", "m">>
                                 [] f = "use" -> <<"u">>]

Call(in, on, name, at) == [in |-> in, on |-> on, name |-> name, at |-> at]

\* class P(Protocol): def m(self): ...    def run(self): self.m()    def f(): ...
Proto1 == [EmptyText EXCEPT
    !.bases = [c \in {"P"} |-> {}], !.methods = [c \in {"P"} |-> {"m", "run"}],
    !.stubs = {<<"P", "m">>}, !.functions = {"f"},
    !.calls = {Call(<<"P", "run">>, "self", "m", <<"line 1">>)}]

\* class P: def run(self): self.m()
Proto2 == [EmptyText EXCEPT
    !.bases = [c \in {"P"} |-> {}], !.methods = [c \in {"P"} |-> {"run"}],
    !.calls = {Call(<<"P", "run">>, "self", "m", <<"line 1">>)}]

\* from p.m import P    class I(P): def m(self): pass    def f(): ...
Impl1 == [EmptyText EXCEPT
    !.imports = [a \in {"P"} |-> <<"p", "m">>],
    !.bases = [c \in {"I"} |-> {"P"}], !.methods = [c \in {"I"} |-> {"m"}],
    !.functions = {"f"}]

\* The same without f, and a second implementation J of P.
Impl2 == [Impl1 EXCEPT
    !.bases = [c \in {"I", "J"} |-> {"P"}], !.methods = [c \in {"I", "J"} |-> {"m"}],
    !.functions = {}]

\* from m import f, I, J    from p.m import P    class D(P, I, J): def go(self): self.m()
\* def fx(): ...    def test(fx): f()
Use1 == [EmptyText EXCEPT
    !.imports = [a \in {"f", "I", "J", "P"} |-> IF a = "P" THEN <<"p", "m">> ELSE <<"m">>],
    !.bases = [c \in {"D"} |-> {"P", "I", "J"}], !.methods = [c \in {"D"} |-> {"go"}],
    !.functions = {"fx", "test"},
    !.calls = {Call(<<"test">>, "name", "f", <<"line 2">>), Call(<<"D", "go">>, "self", "m", <<"line 3">>)},
    !.fixtures = [n \in {"fx"} |-> {<<"fx">>}],
    !.requests = {[in |-> <<"test">>, name |-> "fx", at |-> <<"line 4">>]}]

MCText == [t \in {"proto1", "proto2", "impl1", "impl2", "use1", "husk"} |->
    CASE t = "proto1" -> Proto1 [] t = "proto2" -> Proto2 [] t = "impl1" -> Impl1
      [] t = "impl2" -> Impl2 [] t = "use1" -> Use1 [] t = "husk" -> EmptyText]

MCTextsOf == [f \in MCFiles |-> CASE f = "proto" -> {"proto1", "proto2"}
                                  [] f = "impl" -> {"impl1", "impl2"}
                                  [] f = "use" -> {"use1"}]

\* The server knows which f the test means, or a variable of that name, whose
\* place the index takes for the module's; and it knows the fixture.
MCDefinition == [at \in {<<"line 2">>, <<"line 4">>} |->
    IF at = <<"line 2">> THEN {Id("impl", <<"f">>, "function"), Id("impl", <<>>, "module")}
    ELSE {Id("use", <<"fx">>, "function")}]
===============================================================================
