-------------------------- MODULE MCTemplateEditing --------------------------
EXTENDS TemplateEditing, TLC

Everything == {"patch", "publish", "bundle", "delete", "regenerate"}
Automatic == {"auto"}
ParentOnly == {Parents}
Symmetry == Permutations(Requests)
=============================================================================
