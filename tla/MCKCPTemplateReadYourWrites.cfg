CONSTANT Values <- MCValues
SPECIFICATION Spec
PROPERTY ReadYourWrites
