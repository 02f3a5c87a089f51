SPECIFICATION Spec
PROPERTY ClaimsOnlyWithBA
