----------------------------- MODULE MCAttributes -----------------------------
(* Instances of Attributes for TLC. *)
EXTENDS Attributes

(* Descriptors of every shape in C, some below it and in the metaclass. *)
Has(functions) == Kind("object", functions)
Property(functions) == Kind("property", functions)
DescriptorKinds ==
    [C |-> {Has({}), Has({"get"}), Has({"set"}), Has({"get", "set"}), Has({"delete"}),
            Kind("function", {"get"}), Kind("static", {"get"}), Property({"get"}),
            Property({"get", "set"}), Property({"get", "set", "delete"})},
     B |-> {Has({}), Kind("class", {"get"}), Has({"get", "set"})},
     Meta |-> {Has({}), Has({"get"}), Has({"set"}), Property({"get"})}]
HooksOn(b, meta) == [C |-> {}, B |-> b, Meta |-> meta, type |-> {}]
HookFamilies ==
    {HooksOn({}, {}), HooksOn({"getattribute", "setattr"}, {"getattr"}),
     HooksOn({"getattribute", "getattr", "delattr"}, {}),
     HooksOn({}, {"getattribute", "getattr", "delattr"}),
     HooksOn({"getattr"}, {"getattribute", "setattr"})}

ASSUME ConstantsFit == AttributesAssumption
=============================================================================
