SPECIFICATION Spec
CONSTANT Limit = 6
PROPERTY Implements
